---- MODULE Spec2Model ----
(***************************************************************************)
(* A model of the groblins simulation: the entity store, the spatial       *)
(* partition, the walkability grid, the physics tick and the food planner. *)
(*                                                                         *)
(* Numbers.  The program computes with IEEE doubles; the model computes    *)
(* with integers on a fixed grid:                                          *)
(*   - a position or a size is a whole number of 1e-5 tiles (Unit per      *)
(*     tile), so the 1e-5 tolerance of intersection() is exactly 1;        *)
(*   - a velocity is in position units per second;                         *)
(*   - a time is in milliseconds;                                          *)
(*   - a need value is in FoodUnit-ths of a point.                         *)
(* A product that leaves the grid is truncated (\div).                     *)
(***************************************************************************)
EXTENDS Integers, Sequences, FiniteSets, TLC

VARIABLES
    heap,               \* every entity object ever created: id -> its fields
    nextId,             \* the next fresh object identity
    entities,           \* EntityCollection.entities of World.view.entities (insertion order)
    componentMap,       \* EntityCollection.componentMap of World.view.entities
    partitions,         \* Partitions.partitions: cell key -> members (insertion order)
    reversePartitions,  \* Partitions.reversePartitions: entity -> cell key
    moved,              \* Partitions.moved (insertion order)
    collidingPairs,     \* World.view.collidingPairs
    grid,               \* World.view.grid: tile -> walkable
    berryTimer,         \* World.berryTimer, in milliseconds
    initialized,        \* World.initialized
    keys,               \* World.keys
    thrown,             \* the last operation ended in a runtime error ("" when it did not)
    lastOp,             \* the operation that produced this state
    halted,             \* the ticker stopped: a tick ended in an uncaught error
    log,                \* what the last operation did (route calls, gravity, clears)
    search,             \* explore's work list, paths and farthest tile while a search runs
    nTicks,             \* ticks taken so far
    nEdits,             \* pointerDown calls so far
    nBerries            \* berries spawned by tick so far

vars == << heap, nextId, entities, componentMap, partitions, reversePartitions, moved,
           collidingPairs, grid, berryTimer, initialized, keys, thrown, lastOp, halted,
           log, search, nTicks, nEdits, nBerries >>

-----------------------------------------------------------------------------
(* Bounds of the model *)

Width == 7           \* World.width
Height == 5          \* World.height
MaxTicks == 19       \* ticks in one behaviour
MaxEdits == 1        \* pointerDown calls in one behaviour
MaxBerries == 1      \* berries the timer spawns in one behaviour

-----------------------------------------------------------------------------
(* Program constants (world.ts) *)

Unit == 100000
TERMINAL_VELOCITY == 10
GRAVITY == 100
JUMP_POP == 15
DRAG == 3
GRID_SIZE == 2
MsPerSec == 10 * 100
BERRY_TIMER_MAX == MsPerSec \div 10
WallElasticityDen == 2 * 5          \* WALL_ELASTICITY = 0.1 = 1 / WallElasticityDen
FoodUnit == 10 * 10
Null == 0

-----------------------------------------------------------------------------
(* Arithmetic *)

Abs(n) == IF n < 0 THEN -n ELSE n
Sign(n) == IF n > 0 THEN 1 ELSE IF n < 0 THEN -1 ELSE 0
Min(a, b) == IF a <= b THEN a ELSE b
Max(a, b) == IF a >= b THEN a ELSE b
Range(s) == { s[i] : i \in DOMAIN s }
CeilDiv(a, b) == -((-a) \div b)

\* Math.round of a position: the nearest tile, halves going up.
Round(p) == (2 * p + Unit) \div (2 * Unit)

\* dx^2 + dy^2 for dx, dy in position units, as << hi, lo >> with value
\* hi * 10^6 + lo and lo < 10^6 (the square itself leaves the 32-bit integers).
Limb == 10 * 100
Limb2 == Limb * Limb
SqSum(dx, dy) ==
    LET ax == Abs(dx) \div Limb
        bx == Abs(dx) % Limb
        ay == Abs(dy) \div Limb
        by == Abs(dy) % Limb
        A == ax * ax + ay * ay
        B == 2 * (ax * bx + ay * by)
        C == bx * bx + by * by
        t == (B % Limb) * Limb + C
    IN  << A + (B \div Limb) + (t \div Limb2), t % Limb2 >>

PairLE(p, q) == p[1] < q[1] \/ (p[1] = q[1] /\ p[2] <= q[2])
PairLT(p, q) == p[1] < q[1] \/ (p[1] = q[1] /\ p[2] < q[2])

\* Math.sqrt(dx ** 2 + dy ** 2) <= range, and < range
DistLE(dx, dy, range) == range >= 0 /\ PairLE(SqSum(dx, dy), SqSum(range, 0))
DistLT(dx, dy, range) == range > 0 /\ PairLT(SqSum(dx, dy), SqSum(range, 0))

\* Ordered sets (a JavaScript Set iterates in insertion order)
SetAdd(s, e) == IF e \in Range(s) THEN s ELSE Append(s, e)
SetDelete(s, e) == SelectSeq(s, LAMBDA z : z # e)

\* F(x) with x computed first: the state of a loop after its first half, handed to the
\* second half as a value
Then(x, F(_)) == CHOOSE r \in { F(v) : v \in {x} } : TRUE

\* Array.prototype.flat(): the concatenation of ss[lo .. hi], by halves
RECURSIVE FlatRange(_, _, _)
FlatRange(ss, lo, hi) ==
    IF lo > hi THEN << >>
    ELSE IF lo = hi THEN ss[lo]
    ELSE FlatRange(ss, lo, (lo + hi) \div 2) \o FlatRange(ss, (lo + hi) \div 2 + 1, hi)

Flat(ss) == FlatRange(ss, 1, Len(ss))

-----------------------------------------------------------------------------
(* Need trackers (groblin.ts) *)

WaitPlan == [type |-> "wait", to |-> [ref |-> Null, x |-> 0, y |-> 0], path |-> << >>, what |-> Null]
MovePlan(to, path) == [type |-> "move", to |-> to, path |-> path, what |-> Null]
EatPlan(food) == [type |-> "eat", to |-> [ref |-> Null, x |-> 0, y |-> 0], path |-> << >>, what |-> food]

\* The mutant: set() stores the value as given.
NeedTracker_set_unclamped(t, value) == [t EXCEPT !.value = value]

\* NeedTracker.set: the value, clamped to [min, max]
NeedTracker_set(t, value) ==
    LET v1 == IF value > t.max THEN t.max ELSE value
        v2 == IF v1 < t.min THEN t.min ELSE v1
    IN  [t EXCEPT !.value = v2]

\* The mutant: one threshold per boundary, no band between hungry and full.
FoodTracker_set_noHysteresis(t, value) ==
    LET t0 == NeedTracker_set(t, value)
    IN  [t0 EXCEPT !.state = IF t0.value < t0.thresholds.starving THEN "starving"
                             ELSE IF t0.value < t0.thresholds.hungry THEN "hungry"
                             ELSE "full"]

\* FoodTracker.set: four ifs in sequence, each reading the state the one before left
FoodTracker_set(t, value) ==
    LET t0 == NeedTracker_set(t, value)
        s1 == IF t0.state = "full" /\ t0.value < t0.thresholds.hungry THEN "hungry" ELSE t0.state
        s2 == IF s1 = "hungry" /\ t0.value > t0.thresholds.full THEN "full" ELSE s1
        s3 == IF s2 = "hungry" /\ t0.value < t0.thresholds.starving THEN "starving" ELSE s2
        s4 == IF s3 = "starving" /\ t0.value > t0.thresholds.hungry THEN "hungry" ELSE s3
    IN  [t0 EXCEPT !.state = s4]

\* new FoodTracker(initial, max, thresholds): NeedTracker's constructor calls set()
\* before the subclass's field initialisers run (state is still undefined, so no
\* transition fires); the initialisers then set state = "full".
NewFoodTracker(initial, max, thresholds) ==
    LET raw == [value |-> 0, min |-> 0, max |-> max, thresholds |-> thresholds,
                state |-> "undefined", plan |-> WaitPlan,
                exploreDirection |-> [x |-> -1, y |-> 1], inaccessibleFood |-> {}]
        constructed == FoodTracker_set(raw, initial)
    IN  [constructed EXCEPT !.state = "full"]

NewRelaxTracker(initial, max) ==
    NeedTracker_set([value |-> 0, min |-> 0, max |-> max], initial)

FoodTracker_add(t, delta) == FoodTracker_set(t, t.value + delta)

\* FoodTracker.tick: add(-delta * 10), delta in milliseconds here
FoodTracker_tick(t, delta) == FoodTracker_add(t, -((delta * 10 * FoodUnit) \div MsPerSec))

FoodTracker_clear(t) == [t EXCEPT !.plan = WaitPlan, !.inaccessibleFood = {}]

\* urgency(), times UrgencyDen so that RelaxTracker's 1 - value / max is a whole number
UrgencyDen == 100 * 100
FoodTracker_urgency(t) ==
    IF t.state = "starving" THEN 100 * UrgencyDen
    ELSE IF t.state = "hungry" THEN 50 * UrgencyDen
    ELSE 0
RelaxTracker_urgency(t) == UrgencyDen - (t.value * UrgencyDen) \div t.max

NeedNames == << "food", "relax" >>
urgency(needs, need) ==
    IF need = "food" THEN FoodTracker_urgency(needs.food) ELSE RelaxTracker_urgency(needs.relax)

-----------------------------------------------------------------------------
(* Entities (ecs.ts, objects.ts) *)

ComponentNames == { "positioned", "collidable", "movable", "edible", "groblin" }

NoNeeds == [food |-> NewFoodTracker(0, FoodUnit, [starving |-> 0, hungry |-> 0, full |-> 0]),
            relax |-> NewRelaxTracker(0, FoodUnit)]

Blank ==
    [components |-> << >>, x |-> 0, y |-> 0, width |-> 0, height |-> 0,
     group |-> 0, collidesWith |-> {}, passthrough |-> "empty",
     velocity |-> [x |-> 0, y |-> 0], density |-> 0, landed |-> Null,
     food |-> 0, needs |-> NoNeeds, plan |-> WaitPlan, priority |-> "",
     crawling |-> Null, vision |-> 0, speed |-> 0]

block(x, y) ==
    [Blank EXCEPT !.components = << "positioned", "collidable" >>,
                  !.x = x, !.y = y, !.width = Unit, !.height = Unit,
                  !.group = 1, !.passthrough = "solid", !.collidesWith = {0}]

cave(x, y) ==
    [Blank EXCEPT !.components = << "positioned", "collidable" >>,
                  !.x = x, !.y = y, !.width = Unit, !.height = Unit,
                  !.group = 1, !.passthrough = "climbable", !.collidesWith = {0}]

berry(x, y, width, height, density, food) ==
    [Blank EXCEPT !.components = << "positioned", "collidable", "movable", "edible" >>,
                  !.x = x, !.y = y, !.width = width, !.height = height,
                  !.density = density, !.food = food,
                  !.group = 0, !.collidesWith = {0, 1}, !.landed = Null,
                  !.passthrough = "empty"]

groblin(x, y, width, height, density, needs, vision, speed) ==
    [Blank EXCEPT !.components = << "positioned", "collidable", "movable", "groblin" >>,
                  !.x = x, !.y = y, !.width = width, !.height = height,
                  !.density = density, !.needs = needs, !.vision = vision, !.speed = speed,
                  !.group = 0, !.collidesWith = {0, 1}, !.priority = "food",
                  !.plan = WaitPlan, !.landed = Null, !.crawling = Null,
                  !.passthrough = "empty"]

listComponents(e) == e.components
hasComponents(e, components) == components \subseteq Range(e.components)

-----------------------------------------------------------------------------
(* EntityCollection (world.ts).  ec = [entities, componentMap]; h is the heap. *)

EmptyCollection == [entities |-> << >>, componentMap |-> [c \in ComponentNames |-> << >>]]

\* listComponents().forEach(component => componentMap.add / remove (component, entity))
RECURSIVE IndexAdd(_, _, _)
IndexAdd(cm, components, id) ==
    IF components = << >> THEN cm
    ELSE IndexAdd([cm EXCEPT ![Head(components)] = SetAdd(@, id)], Tail(components), id)

RECURSIVE IndexRemove(_, _, _)
IndexRemove(cm, components, id) ==
    IF components = << >> THEN cm
    ELSE IndexRemove([cm EXCEPT ![Head(components)] = SetDelete(@, id)], Tail(components), id)

EntityCollection_add(ec, h, id) ==
    [entities |-> SetAdd(ec.entities, id),
     componentMap |-> IndexAdd(ec.componentMap, listComponents(h[id]), id)]

\* The mutant: remove forgets the component index.
EntityCollection_remove_keepsIndex(ec, h, id) ==
    [ec EXCEPT !.entities = SetDelete(ec.entities, id)]

EntityCollection_remove(ec, h, id) ==
    [entities |-> SetDelete(ec.entities, id),
     componentMap |-> IndexRemove(ec.componentMap, listComponents(h[id]), id)]

\* having(components, exclude): components is a non-empty sequence, exclude a sequence
having(ec, components, exclude) ==
    LET candidates == ec.componentMap[Head(components)]
        included == SelectSeq(candidates, LAMBDA id :
                        \A c \in Range(Tail(components)) : id \in Range(ec.componentMap[c]))
    IN  SelectSeq(included, LAMBDA id :
            ~ \E c \in Range(exclude) : id \in Range(ec.componentMap[c]))

\* ids[lo .. hi].forEach(entity => collection.add(entity)), by halves
RECURSIVE AddAllRange(_, _, _, _, _)
AddAllRange(ec, h, ids, lo, hi) ==
    IF lo > hi THEN ec
    ELSE IF lo = hi THEN EntityCollection_add(ec, h, ids[lo])
    ELSE Then(AddAllRange(ec, h, ids, lo, (lo + hi) \div 2),
              LAMBDA half : AddAllRange(half, h, ids, (lo + hi) \div 2 + 1, hi))

AddAll(ec, h, ids) == AddAllRange(ec, h, ids, 1, Len(ids))

-----------------------------------------------------------------------------
(* Partitions (world.ts).  p = [partitions, reversePartitions, moved].       *)
(* A cell key "cx,cy" is the pair << cx, cy >>: the template string and the  *)
(* split(",").map(Number) that reads it back are inverse on whole numbers.   *)

EmptyPartitions == [partitions |-> << >>, reversePartitions |-> << >>, moved |-> << >>]

MapSet(f, k, v) == IF k \in DOMAIN f THEN [f EXCEPT ![k] = v] ELSE f @@ (k :> v)
MapDelete(f, k) == [kk \in (DOMAIN f) \ {k} |-> f[kk]]
\* SetMap.get: the set stored under the key, an empty one when there is none
SetMap_get(f, k) == IF k \in DOMAIN f THEN f[k] ELSE << >>

getCellKey(x, y) == << x \div (GRID_SIZE * Unit), y \div (GRID_SIZE * Unit) >>

Partitions_add(p, h, id) ==
    LET key == getCellKey(h[id].x, h[id].y)
    IN  [partitions |-> MapSet(p.partitions, key, SetAdd(SetMap_get(p.partitions, key), id)),
         reversePartitions |-> MapSet(p.reversePartitions, id, key),
         moved |-> IF hasComponents(h[id], {"movable"}) THEN SetAdd(p.moved, key) ELSE p.moved]

\* remove() looks the cell up from the entity's present position, not from reversePartitions
Partitions_remove(p, h, id) ==
    LET key == getCellKey(h[id].x, h[id].y)
    IN  [p EXCEPT !.partitions = MapSet(p.partitions, key, SetDelete(SetMap_get(p.partitions, key), id)),
                  !.reversePartitions = MapDelete(p.reversePartitions, id)]

Partitions_move(p, h, id) ==
    LET key == getCellKey(h[id].x, h[id].y)
        p1 == [p EXCEPT !.moved = SetAdd(p.moved, key)]
        old == p.reversePartitions[id]
    IN  IF old # key
        THEN Partitions_add(
                [p1 EXCEPT !.partitions = MapSet(p1.partitions, old,
                                            SetDelete(SetMap_get(p1.partitions, old), id))],
                h, id)
        ELSE p1

hasMoved(p, h, id) == getCellKey(h[id].x, h[id].y) \in Range(p.moved)

\* neighborhood(x, y, range): the cells scanned, column by column, then the members
\* of each in insertion order, then the filter by the true distance
neighborhood(p, h, x, y, range) ==
    LET c == CeilDiv(range, GRID_SIZE * Unit)
        n == 2 * c + 1
    IN  Then(Flat([i \in 1 .. (IF c < 0 THEN 0 ELSE n * n) |->
                      SetMap_get(p.partitions,
                                 getCellKey(x + (((i - 1) \div n) - c) * GRID_SIZE * Unit,
                                            y + (((i - 1) % n) - c) * GRID_SIZE * Unit))]),
             LAMBDA members :
                SelectSeq(members, LAMBDA id : DistLE(x - h[id].x, y - h[id].y, range)))

\* The mutant: the dirty set survives the query.
Partitions_clearMoved_keeps(p) == p
\* this.moved.clear() of neighborhoodsWithMovement()
Partitions_clearMoved(p) == [p EXCEPT !.moved = << >>]

\* neighborhoodsWithMovement(): one neighborhood per dirty cell; the caller applies
\* Partitions_clearMoved
neighborhoodsWithMovement(p, h) ==
    [i \in DOMAIN p.moved |->
        neighborhood(p, h, (p.moved[i][1] * GRID_SIZE + 1) * Unit,
                           (p.moved[i][2] * GRID_SIZE + 1) * Unit, GRID_SIZE * Unit)]

\* ids[lo .. hi].forEach(obj => partitions.add(obj)), by halves
RECURSIVE Partitions_addRange(_, _, _, _, _)
Partitions_addRange(p, h, ids, lo, hi) ==
    IF lo > hi THEN p
    ELSE IF lo = hi THEN Partitions_add(p, h, ids[lo])
    ELSE Then(Partitions_addRange(p, h, ids, lo, (lo + hi) \div 2),
              LAMBDA half : Partitions_addRange(half, h, ids, (lo + hi) \div 2 + 1, hi))

Partitions_addAll(p, h, ids) == Partitions_addRange(p, h, ids, 1, Len(ids))

-----------------------------------------------------------------------------
(* Collision tests (world.ts) *)

\* intersection(): the y test has the 1e-5 tolerance, the x test has none
intersection(o1, o2) ==
    /\ 2 * Abs(o1.x - o2.x) <= o1.width + o2.width
    /\ 2 * Abs(o1.y - o2.y) <= o1.height + o2.height + 2 * 1

collision(o1, o2) ==
    /\ o2.group \in o1.collidesWith
    /\ o1.group \in o2.collidesWith
    /\ intersection(o1, o2)

-----------------------------------------------------------------------------
(* World (world.ts).  A world value w gathers the fields of the World object; *)
(* an operation maps a world value to the world value it leaves.             *)

Tiles == (0 .. Width) \X (0 .. Height)

\* PF.Grid.isInside
isInside(x, y) == x >= 0 /\ x < Width + 1 /\ y >= 0 /\ y < Height + 1

\* no explore call is running
NoSearch == [toVisit |-> << >>, sp |-> << >>, farthest |-> << 0, 0 >>]

EmptyLog == [routed |-> << >>, marked |-> {}, cleared |-> {}, gravity |-> {}, explored |-> {},
             removed |-> {}, reset |-> {}, ate |-> << >>, hoods |-> << >>, dirtied |-> << >>,
             resolved |-> << >>]

\* new World(width, height): every tile starts unwalkable
NewWorld ==
    [heap |-> << >>, nextId |-> 1, ec |-> EmptyCollection, part |-> EmptyPartitions,
     collidingPairs |-> << >>, grid |-> [t \in Tiles |-> FALSE],
     berryTimer |-> BERRY_TIMER_MAX, initialized |-> FALSE, keys |-> {},
     thrown |-> "", log |-> EmptyLog]

\* World.add of a freshly created entity
World_add(w, object) ==
    LET id == w.nextId
    IN  Then(MapSet(w.heap, id, object), LAMBDA h :
            [w EXCEPT !.heap = h, !.nextId = id + 1,
                      !.ec = EntityCollection_add(w.ec, h, id),
                      !.part = IF hasComponents(object, {"positioned", "collidable"})
                               THEN Partitions_add(w.part, h, id) ELSE w.part])

\* collidingPairs.remove(key, value): SetMap.get creates the key
Pairs_get(cp, key) == IF key \in DOMAIN cp THEN cp[key] ELSE {}
Pairs_remove(cp, key, value) == MapSet(cp, key, Pairs_get(cp, key) \ {value})
Pairs_add(cp, key, value) == MapSet(cp, key, Pairs_get(cp, key) \cup {value})

\* collidingPairs.get(object).forEach(other => remove(other, object)); delete(object)
Pairs_forget(cp, id) ==
    LET others == Pairs_get(cp, id)
    IN  MapDelete([k \in (DOMAIN cp) \cup others |->
                      IF k \in others THEN Pairs_get(cp, k) \ {id} ELSE cp[k]], id)

World_remove(w, id) ==
    LET isCollidable == hasComponents(w.heap[id], {"positioned", "collidable"})
    IN  [w EXCEPT !.ec = EntityCollection_remove(w.ec, w.heap, id),
                  !.collidingPairs = IF isCollidable THEN Pairs_forget(w.collidingPairs, id)
                                     ELSE w.collidingPairs,
                  !.part = IF isCollidable THEN Partitions_remove(w.part, w.heap, id)
                           ELSE w.part,
                  !.log = [w.log EXCEPT !.removed = @ \cup {id}]]

\* The non-movable collidables, and those of them that are solid or climbable at a tile
Terrain(w) == having(w.ec, << "collidable", "positioned" >>, << "movable" >>)
HasTerrainAt(w, pass, x, y) ==
    \E id \in Range(Terrain(w)) :
        /\ w.heap[id].passthrough = pass
        /\ w.heap[id].x = x * Unit
        /\ w.heap[id].y = y * Unit

\* The branch of updateGrid's if-chain for one tile: the flag written, or "skip"
WalkableRule(w, x, y) ==
    IF HasTerrainAt(w, "solid", x, y) THEN "false"
    ELSE IF HasTerrainAt(w, "climbable", x, y) THEN "true"
    ELSE IF HasTerrainAt(w, "solid", x, y + 1) \/ HasTerrainAt(w, "climbable", x, y + 1) THEN "true"
    ELSE IF /\ HasTerrainAt(w, "solid", x, y + 2)
            /\ (HasTerrainAt(w, "solid", x + 1, y + 1) \/ HasTerrainAt(w, "solid", x - 1, y + 1))
         THEN "true"
    ELSE IF isInside(x, y) THEN "false"
    ELSE "skip"

\* updated.forEach(...): PF.Grid.setWalkableAt(x, y, flag) is nodes[y][x].walkable = flag,
\* a TypeError outside the grid; the loop stops there.
UpdateTile(w, r, t) ==
    LET rule == WalkableRule(w, t[1], t[2])
    IN  IF r.thrown # "" \/ rule = "skip" THEN r
        ELSE IF ~ isInside(t[1], t[2])
        THEN [r EXCEPT !.thrown = "TypeError: setWalkableAt outside the grid"]
        ELSE [r EXCEPT !.grid[t] = (rule = "true")]

\* the tiles updated[lo .. hi] in order, by halves; r = [grid, thrown]
RECURSIVE UpdateRange(_, _, _, _, _)
UpdateRange(w, r, updated, lo, hi) ==
    IF lo > hi \/ r.thrown # "" THEN r
    ELSE IF lo = hi THEN UpdateTile(w, r, updated[lo])
    ELSE Then(UpdateRange(w, r, updated, lo, (lo + hi) \div 2),
              LAMBDA half : UpdateRange(w, half, updated, (lo + hi) \div 2 + 1, hi))

UpdateTiles(w, g, updated) == UpdateRange(w, [grid |-> g, thrown |-> ""], updated, 1, Len(updated))

\* The mutant: the edit drops the plan the agent is acting on as well.
ClearPriority_dropsPlan(e) ==
    IF e.priority = "food"
    THEN [e EXCEPT !.needs.food = FoodTracker_clear(e.needs.food), !.plan = WaitPlan]
    ELSE e

\* groblin.needs[groblin.priority].clear(): RelaxTracker.clear does nothing
ClearPriority(e) ==
    IF e.priority = "food" THEN [e EXCEPT !.needs.food = FoodTracker_clear(e.needs.food)] ELSE e

\* The mutant: the edit leaves the trackers alone.
updateGrid_noClear(w, updated) ==
    Then(UpdateTiles(w, w.grid, updated), LAMBDA tiles :
        IF tiles.thrown # "" THEN [w EXCEPT !.grid = tiles.grid, !.thrown = tiles.thrown]
        ELSE [w EXCEPT !.grid = tiles.grid,
                       !.part = Partitions_addAll(EmptyPartitions, w.heap,
                                    having(w.ec, << "collidable", "positioned" >>, << >>))])

updateGrid(w, updated) ==
    Then(UpdateTiles(w, w.grid, updated), LAMBDA tiles :
        IF tiles.thrown # "" THEN [w EXCEPT !.grid = tiles.grid, !.thrown = tiles.thrown]
        ELSE Then(Range(having(w.ec, << "groblin" >>, << >>)), LAMBDA groblins :
             Then([id \in DOMAIN w.heap |->
                      IF id \in groblins /\ w.heap[id].priority # ""
                      THEN ClearPriority(w.heap[id]) ELSE w.heap[id]],
                  LAMBDA h :
                     [w EXCEPT !.grid = tiles.grid, !.heap = h,
                               !.log = [w.log EXCEPT !.cleared =
                                           @ \cup { id \in groblins : w.heap[id].priority = "food" }],
                               !.part = Partitions_addAll(EmptyPartitions, h,
                                            having(w.ec, << "collidable", "positioned" >>, << >>))])))

\* The 7 x 7 patch of pointerDown, the edited tile first
Patch(px, py) ==
    << << px, py >> >> \o [i \in 1 .. 49 |-> << px - 3 + ((i - 1) \div 7), py - 3 + ((i - 1) % 7) >>]

\* pointerDown(x, y) with (x, y) already rounded to the tile (px, py)
pointerDown(w, px, py) ==
    LET proposed == [x |-> px * Unit, y |-> py * Unit,
                     width |-> (99 * Unit) \div 100, height |-> (99 * Unit) \div 100]
    IN  Then(SelectSeq(Terrain(w), LAMBDA id :
                 w.heap[id].x = proposed.x /\ w.heap[id].y = proposed.y),
             LAMBDA existing :
        Then(IF existing # << >>
             THEN Then(World_remove(w, Head(existing)), LAMBDA removed :
                      World_add(removed, cave(proposed.x, proposed.y)))
             ELSE IF ~ \E id \in Range(having(w.ec, << "collidable", "positioned" >>, << >>)) :
                           intersection(w.heap[id], proposed)
                  THEN World_add(w, block(proposed.x, proposed.y))
                  ELSE w,
             LAMBDA w1 : updateGrid(w1, Patch(px, py))))

\* keyDown(key): this.keys.add(key)
keyDown(w, key) == [w EXCEPT !.keys = @ \cup {key}]

\* keyUp(key): this.keys.delete(key)
keyUp(w, key) == [w EXCEPT !.keys = @ \ {key}]

-----------------------------------------------------------------------------
(* Path search (groblin.ts).  A tile is << x, y >>. *)

isWalkableAt(g, x, y) == isInside(x, y) /\ g[<< x, y >>]

\* PF.Grid.getNeighbors with DiagonalMovement.Never: up, right, down, left, walkable only
getNeighbors(g, t) ==
    SelectSeq(<< << t[1], t[2] - 1 >>, << t[1] + 1, t[2] >>, << t[1], t[2] + 1 >>, << t[1] - 1, t[2] >> >>,
              LAMBDA n : isWalkableAt(g, n[1], n[2]))

\* The tiles at each distance from the end tile, going back over walkable tiles
RECURSIVE Layers(_, _, _)
Layers(g, frontier, seen) ==
    IF frontier = {} THEN << >>
    ELSE Then({ n \in Tiles : /\ n \notin seen
                              /\ g[n]
                              /\ \E f \in frontier : Abs(n[1] - f[1]) + Abs(n[2] - f[2]) = 1 },
              LAMBDA next :
                  Then(seen \cup next, LAMBDA all : << frontier >> \o Layers(g, next, all)))

\* Steps left to the end tile from a walkable tile t (0 when unreachable: see StepsLeft's use)
StepsLeft(layers, t) ==
    IF \E i \in DOMAIN layers : t \in layers[i]
    THEN (CHOOSE i \in DOMAIN layers : t \in layers[i]) - 1
    ELSE -1

RECURSIVE Descend(_, _, _, _)
Descend(g, layers, t, left) ==
    IF left = 0 THEN << t >>
    ELSE Then(Head(SelectSeq(getNeighbors(g, t), LAMBDA n : StepsLeft(layers, n) = left - 1)),
              LAMBDA down : << t >> \o Descend(g, layers, down, left - 1))

\* The mutant: the search commits to the first neighbour that leads to the end tile,
\* whether or not it is the nearest to it.
route_firstNeighbour(planner, to, g) ==
    LET start == << Round(planner.x), Round(planner.y) >>
        end == << Round(to.x), Round(to.y) >>
    IN  IF start = end THEN [path |-> << start >>, thrown |-> "", grid |-> g]
        ELSE Then(IF g[end] THEN Layers(g, {end}, {end}) ELSE << >>, LAMBDA layers :
             Then(SelectSeq(getNeighbors(g, start), LAMBDA n : StepsLeft(layers, n) >= 0),
                  LAMBDA firsts :
                     IF layers = << >> \/ firsts = << >> THEN [path |-> << >>, thrown |-> "", grid |-> g]
                     ELSE [path |-> << start >> \o Descend(g, layers, Head(firsts),
                                                           StepsLeft(layers, Head(firsts))),
                           thrown |-> "", grid |-> g]))

\* The mutant: the search closes every node of the grid it was given.
AfterSearch_closed(g) == [t \in DOMAIN g |-> FALSE]

\* findPath(..., grid.clone()): the finder marks the nodes of the clone; the walkable
\* flags of the grid route was given are as they were
AfterSearch(g) == g

\* route(planner, to, grid): PF.AStarFinder.findPath between the rounded positions.
\* The finder returns a shortest 4-connected path, the start tile included, the start
\* tile not required to be walkable, and [] when there is none; among equal-length
\* paths the model takes the neighbours in the grid's order.  Reading a node
\* outside the grid is a TypeError.  The result's grid is the grid passed in, as the
\* call leaves it.
route(planner, to, g) ==
    LET start == << Round(planner.x), Round(planner.y) >>
        end == << Round(to.x), Round(to.y) >>
    IN  IF ~ isInside(start[1], start[2]) \/ ~ isInside(end[1], end[2])
        THEN [path |-> << >>, thrown |-> "TypeError: findPath outside the grid", grid |-> g]
        ELSE IF start = end THEN [path |-> << start >>, thrown |-> "", grid |-> AfterSearch(g)]
        ELSE Then(IF g[end] THEN Layers(g, {end}, {end}) ELSE << >>, LAMBDA layers :
             Then(SelectSeq(getNeighbors(g, start), LAMBDA n : StepsLeft(layers, n) >= 0),
                  LAMBDA firsts :
                     IF layers = << >> \/ firsts = << >> THEN [path |-> << >>, thrown |-> "", grid |-> AfterSearch(g)]
                     ELSE Then(CHOOSE d \in { StepsLeft(layers, n) : n \in Range(firsts) } :
                                   \A n \in Range(firsts) : d <= StepsLeft(layers, n),
                               LAMBDA best :
                                  [path |-> << start >> \o Descend(g, layers,
                                                Head(SelectSeq(firsts, LAMBDA n :
                                                        StepsLeft(layers, n) = best)), best),
                                   thrown |-> "", grid |-> AfterSearch(g)])))

\* The mutant: dist() takes a tile on the selected side however near it is.
ExploreDist_anyGap(t, planner, exploreDirection) ==
    IF Sign(planner.x - t[1] * Unit) = exploreDirection
    THEN SqSum(t[1] * Unit - planner.x, t[2] * Unit - planner.y)
    ELSE << -1, 0 >>

\* dist() of explore: the distance when the tile lies at least one tile to the side
\* the direction selects, -1 otherwise; as a SqSum pair, << -1, 0 >> for -1
ExploreDist(t, planner, exploreDirection) ==
    IF /\ Sign(planner.x - t[1] * Unit) = exploreDirection
       /\ Abs(planner.x - t[1] * Unit) >= Unit
    THEN SqSum(t[1] * Unit - planner.x, t[2] * Unit - planner.y)
    ELSE << -1, 0 >>

\* The neighbours explore pushes from the tile cur reached by path
ExplorePushes(g, planner, sp, cur, path) ==
    LET ok == SelectSeq(getNeighbors(g, cur), LAMBDA n :
                  /\ isInside(n[1], n[2])
                  /\ isWalkableAt(g, n[1], n[2])
                  /\ DistLT(n[1] * Unit - planner.x, n[2] * Unit - planner.y, planner.vision)
                  /\ (n \notin DOMAIN sp \/ Len(sp[n]) > Len(path) + 1))
    IN  [i \in DOMAIN ok |-> [tile |-> ok[i], path |-> Append(path, ok[i])]]

\* The mutant: the work list is never left empty; when the last entry has been
\* handled the search starts over from the agent's tile with nothing recorded.
ExploreStep_startsOver(g, planner, dir, s) ==
    LET current == s.toVisit[Len(s.toVisit)]
        rest == SubSeq(s.toVisit, 1, Len(s.toVisit) - 1)
        far1 == IF PairLT(ExploreDist(s.farthest, planner, dir),
                          ExploreDist(current.tile, planner, dir))
                THEN current.tile ELSE s.farthest
    IN  Then(IF current.tile \notin DOMAIN s.sp \/ Len(current.path) < Len(s.sp[current.tile])
             THEN MapSet(s.sp, current.tile, current.path) ELSE s.sp,
             LAMBDA sp1 :
                Then(rest \o ExplorePushes(g, planner, sp1, current.tile, current.path),
                     LAMBDA next :
                        IF next = << >>
                        THEN [toVisit |-> << [tile |-> << Round(planner.x), Round(planner.y) >>,
                                             path |-> << >>] >>,
                              sp |-> << >>, farthest |-> far1]
                        ELSE [toVisit |-> next, sp |-> sp1, farthest |-> far1]))

\* One turn of explore's while loop; s = [toVisit, sp, farthest], toVisit a stack
ExploreStep(g, planner, dir, s) ==
    LET current == s.toVisit[Len(s.toVisit)]
        rest == SubSeq(s.toVisit, 1, Len(s.toVisit) - 1)
        far1 == IF PairLT(ExploreDist(s.farthest, planner, dir),
                          ExploreDist(current.tile, planner, dir))
                THEN current.tile ELSE s.farthest
    IN  Then(IF current.tile \notin DOMAIN s.sp \/ Len(current.path) < Len(s.sp[current.tile])
             THEN MapSet(s.sp, current.tile, current.path) ELSE s.sp,
             LAMBDA sp1 :
                [toVisit |-> rest \o ExplorePushes(g, planner, sp1, current.tile, current.path),
                 sp |-> sp1, farthest |-> far1])

\* 2^k turns of explore's while loop, or fewer when toVisit runs empty, by halves
RECURSIVE ExploreTurns(_, _, _, _, _)
ExploreTurns(g, planner, dir, s, k) ==
    IF s.toVisit = << >> THEN s
    ELSE IF k = 0 THEN ExploreStep(g, planner, dir, s)
    ELSE Then(ExploreTurns(g, planner, dir, s, k - 1),
              LAMBDA half : ExploreTurns(g, planner, dir, half, k - 1))

\* The while loop of explore: 1, 2, 4, ... turns, until toVisit is empty
RECURSIVE ExploreRounds(_, _, _, _, _)
ExploreRounds(g, planner, dir, s, k) ==
    IF s.toVisit = << >> THEN s
    ELSE Then(ExploreTurns(g, planner, dir, s, k),
              LAMBDA next : ExploreRounds(g, planner, dir, next, k + 1))

ExploreLoop(g, planner, dir, toVisit, sp, farthest) ==
    ExploreRounds(g, planner, dir, [toVisit |-> toVisit, sp |-> sp, farthest |-> farthest], 0)

explore(planner, g, exploreDirection) ==
    LET start == << Round(planner.x), Round(planner.y) >>
    IN  IF ~ isInside(start[1], start[2])
        THEN [path |-> << >>, thrown |-> "TypeError: getNodeAt outside the grid", grid |-> g]
        ELSE Then(ExploreLoop(g, planner, exploreDirection,
                              << [tile |-> start, path |-> << >>] >>, << >>, start),
                  LAMBDA done :
                     [path |-> IF done.farthest \in DOMAIN done.sp
                               THEN done.sp[done.farthest] ELSE << >>,
                      thrown |-> "", grid |-> g])

\* The mutant: follow drops the first waypoint whether or not the agent has reached it.
follow_alwaysDrops(planner, plan) ==
    IF plan.path = << >>
    THEN [plan |-> plan, thrown |-> "TypeError: plan.path[0] is undefined"]
    ELSE [plan |-> [plan EXCEPT !.path = Tail(plan.path)], thrown |-> ""]

\* follow(planner, plan): plan.path[0][0] of an empty path is a TypeError
follow(planner, plan) ==
    IF plan.path = << >>
    THEN [plan |-> plan, thrown |-> "TypeError: plan.path[0] is undefined"]
    ELSE LET xDiff == plan.path[1][1] * Unit - planner.x
             yDiff == plan.path[1][2] * Unit - planner.y
         IN  [plan |-> IF 2 * Abs(xDiff) < Unit /\ 2 * Abs(yDiff) < Unit
                       THEN [plan EXCEPT !.path = Tail(plan.path)] ELSE plan,
              thrown |-> ""]

-----------------------------------------------------------------------------
(* FoodTracker.plan (groblin.ts) *)

\* Array.prototype.sort is stable: an insertion sort by |e.x - planner.x|
RECURSIVE SortByXDistance(_, _, _)
SortByXDistance(ids, h, px) ==
    IF ids = << >> THEN << >>
    ELSE Then(SortByXDistance(SubSeq(ids, 1, Len(ids) - 1), h, px), LAMBDA sorted :
            LET last == ids[Len(ids)]
                key(id) == Abs(h[id].x - px)
                before == SelectSeq(sorted, LAMBDA id : key(id) <= key(last))
                after == SelectSeq(sorted, LAMBDA id : key(id) > key(last))
            IN  before \o << last >> \o after)

\* plan.to is the food entity itself (a live reference) or a tile of explore
PlanTo(h, plan) ==
    IF plan.to.ref # Null THEN [x |-> h[plan.to.ref].x, y |-> h[plan.to.ref].y]
    ELSE [x |-> plan.to.x, y |-> plan.to.y]

\* The mutant: a failed route marks the food whether or not the planner is grounded.
RECURSIVE FoodLoop_marksAirborne(_, _, _, _, _, _)
FoodLoop_marksAirborne(foods, r, h, me, touching, g) ==
    IF foods = << >> \/ r.result # "" \/ r.thrown # "" THEN r
    ELSE LET food == Head(foods)
             planner == h[me]
             t == r.tracker
             to == PlanTo(h, t.plan)
         IN  IF food \in touching
             THEN [r EXCEPT !.tracker.plan = EatPlan(food), !.result = "returned"]
             ELSE IF t.plan.type = "move" /\ to.x = h[food].x /\ to.y = h[food].y
             THEN Then(follow(planner, t.plan), LAMBDA followed :
                     IF followed.thrown # "" THEN [r EXCEPT !.thrown = followed.thrown]
                     ELSE [r EXCEPT !.tracker.plan = followed.plan, !.result = "returned"])
             ELSE Then(route(planner, h[food], r.grid), LAMBDA found :
                     LET call == [groblin |-> me, food |-> food, found |-> found.path # << >>]
                     IN  IF found.thrown # ""
                         THEN [r EXCEPT !.thrown = found.thrown, !.log.routed = Append(@, call),
                                        !.grid = found.grid]
                         ELSE IF found.path # << >>
                         THEN [r EXCEPT !.tracker.plan =
                                            MovePlan([ref |-> food, x |-> 0, y |-> 0], found.path),
                                        !.result = "returned",
                                        !.log.routed = Append(@, call),
                                        !.grid = found.grid]
                         ELSE Then(IF TRUE
                                   THEN [r EXCEPT !.tracker.inaccessibleFood = @ \cup {food},
                                                  !.log.routed = Append(@, call),
                                                  !.log.marked = @ \cup {food},
                                                  !.grid = found.grid]
                                   ELSE [r EXCEPT !.log.routed = Append(@, call),
                                                  !.grid = found.grid],
                                   LAMBDA next :
                                      Then(Tail(foods), LAMBDA others :
                                         FoodLoop_marksAirborne(others, next, h, me, touching, g))))

\* The for loop over the candidate foods.  r = [tracker, result, thrown, log, grid]:
\* result is "" while no plan has been returned, grid is view.grid as the searches
\* so far have left it.
RECURSIVE FoodLoop(_, _, _, _, _, _)
FoodLoop(foods, r, h, me, touching, g) ==
    IF foods = << >> \/ r.result # "" \/ r.thrown # "" THEN r
    ELSE LET food == Head(foods)
             planner == h[me]
             t == r.tracker
             to == PlanTo(h, t.plan)
         IN  IF food \in touching
             THEN [r EXCEPT !.tracker.plan = EatPlan(food), !.result = "returned"]
             ELSE IF t.plan.type = "move" /\ to.x = h[food].x /\ to.y = h[food].y
             THEN Then(follow(planner, t.plan), LAMBDA followed :
                     IF followed.thrown # "" THEN [r EXCEPT !.thrown = followed.thrown]
                     ELSE [r EXCEPT !.tracker.plan = followed.plan, !.result = "returned"])
             ELSE Then(route(planner, h[food], r.grid), LAMBDA found :
                     LET call == [groblin |-> me, food |-> food, found |-> found.path # << >>]
                     IN  IF found.thrown # ""
                         THEN [r EXCEPT !.thrown = found.thrown, !.log.routed = Append(@, call),
                                        !.grid = found.grid]
                         ELSE IF found.path # << >>
                         THEN [r EXCEPT !.tracker.plan =
                                            MovePlan([ref |-> food, x |-> 0, y |-> 0], found.path),
                                        !.result = "returned",
                                        !.log.routed = Append(@, call),
                                        !.grid = found.grid]
                         ELSE Then(IF planner.landed # Null \/ planner.crawling # Null
                                   THEN [r EXCEPT !.tracker.inaccessibleFood = @ \cup {food},
                                                  !.log.routed = Append(@, call),
                                                  !.log.marked = @ \cup {food},
                                                  !.grid = found.grid]
                                   ELSE [r EXCEPT !.log.routed = Append(@, call),
                                                  !.grid = found.grid],
                                   LAMBDA next :
                                      Then(Tail(foods), LAMBDA others :
                                         FoodLoop(others, next, h, me, touching, g))))

\* The mutant: a path of one waypoint is committed to as well.
AfterLoop_commitsToOneStep(r, h, me, g) ==
    LET planner == h[me]
        t == r.tracker
        to == PlanTo(h, t.plan)
        explores == /\ (planner.landed # Null \/ planner.crawling # Null)
                    /\ \/ t.plan.type # "move"
                       \/ DistLT(to.x - planner.x, to.y - planner.y, Unit \div 2)
    IN  Then(IF explores THEN explore(planner, r.grid, t.exploreDirection.x)
             ELSE [path |-> << >>, thrown |-> "", grid |-> r.grid],
             LAMBDA found :
        Then([r EXCEPT !.tracker = IF explores /\ Len(found.path) <= 0
                                   THEN [t EXCEPT !.exploreDirection.x = -@] ELSE t,
                       !.log.explored = IF explores THEN @ \cup {me} ELSE @,
                       !.grid = found.grid],
             LAMBDA r1 :
                LET path == found.path
                    t1 == r1.tracker
                IN  IF explores /\ found.thrown # "" THEN [r1 EXCEPT !.thrown = found.thrown]
                    ELSE IF explores /\ Len(path) > 0
                    THEN [r1 EXCEPT !.tracker.plan =
                                        MovePlan([ref |-> Null, x |-> path[Len(path)][1] * Unit,
                                                  y |-> path[Len(path)][2] * Unit], path),
                                    !.result = "returned"]
                    ELSE IF t1.plan.type = "move" /\ t1.plan.path # << >>
                    THEN [r1 EXCEPT !.tracker.plan = follow(planner, t1.plan).plan,
                                    !.result = "returned"]
                    ELSE [r1 EXCEPT !.tracker.plan = WaitPlan, !.result = "returned"]))

\* The part of plan() after the loop: exploration, then the existing plan, then wait
AfterLoop(r, h, me, g) ==
    LET planner == h[me]
        t == r.tracker
        to == PlanTo(h, t.plan)
        explores == /\ (planner.landed # Null \/ planner.crawling # Null)
                    /\ \/ t.plan.type # "move"
                       \/ DistLT(to.x - planner.x, to.y - planner.y, Unit \div 2)
    IN  Then(IF explores THEN explore(planner, r.grid, t.exploreDirection.x)
             ELSE [path |-> << >>, thrown |-> "", grid |-> r.grid],
             LAMBDA found :
        Then([r EXCEPT !.tracker = IF explores /\ Len(found.path) <= 1
                                   THEN [t EXCEPT !.exploreDirection.x = -@] ELSE t,
                       !.log.explored = IF explores THEN @ \cup {me} ELSE @,
                       !.grid = found.grid],
             LAMBDA r1 :
                LET path == found.path
                    t1 == r1.tracker
                IN  IF explores /\ found.thrown # "" THEN [r1 EXCEPT !.thrown = found.thrown]
                    ELSE IF explores /\ Len(path) > 1
                    THEN [r1 EXCEPT !.tracker.plan =
                                        MovePlan([ref |-> Null, x |-> path[Len(path)][1] * Unit,
                                                  y |-> path[Len(path)][2] * Unit], path),
                                    !.result = "returned"]
                    ELSE IF t1.plan.type = "move" /\ t1.plan.path # << >>
                    THEN [r1 EXCEPT !.tracker.plan = follow(planner, t1.plan).plan,
                                    !.result = "returned"]
                    ELSE [r1 EXCEPT !.tracker.plan = WaitPlan, !.result = "returned"]))

\* The mutant: an edible still in the air is a candidate too.
Candidates_ignoresLanded(view, h, me) ==
    SortByXDistance(
        SelectSeq(having(view.entities, << "edible", "positioned", "movable", "collidable" >>, << >>),
                  LAMBDA id : id \notin h[me].needs.food.inaccessibleFood),
        h, h[me].x)

\* The mutant: the candidates are not filtered by the inaccessible set.
Candidates_ignoresCache(view, h, me) ==
    SortByXDistance(
        SelectSeq(having(view.entities, << "edible", "positioned", "movable", "collidable" >>, << >>),
                  LAMBDA id : h[id].landed # Null),
        h, h[me].x)

\* foods: the landed, not inaccessible edibles of the view, nearest in x first
Candidates(view, h, me) ==
    SortByXDistance(
        SelectSeq(having(view.entities, << "edible", "positioned", "movable", "collidable" >>, << >>),
                  LAMBDA id : h[id].landed # Null /\ id \notin h[me].needs.food.inaccessibleFood),
        h, h[me].x)

\* FoodTracker.plan(planner, view) for the groblin me: [tracker, result, thrown, log, grid]
FoodTracker_plan(h, me, view, lg) ==
    Then(Candidates(view, h, me), LAMBDA foods :
    Then(FoodLoop(foods, [tracker |-> h[me].needs.food, result |-> "", thrown |-> "", log |-> lg,
                          grid |-> view.grid],
                  h, me, Pairs_get(view.collidingPairs, me), view.grid),
         LAMBDA r1 :
            IF r1.result # "" \/ r1.thrown # "" THEN r1 ELSE AfterLoop(r1, h, me, view.grid)))

\* World.getView(object, range)
getView(w, me, range) ==
    Then(neighborhood(w.part, w.heap, w.heap[me].x, w.heap[me].y, range), LAMBDA visible :
    Then(Range(visible), LAMBDA seen :
        [entities |-> AddAll(EmptyCollection, w.heap, visible),
         collidingPairs |-> [k \in { k \in DOMAIN w.collidingPairs :
                                        k \in seen /\ w.collidingPairs[k] \cap seen # {} } |->
                                w.collidingPairs[k] \cap seen],
         grid |-> w.grid]))

-----------------------------------------------------------------------------
(* World.tick (world.ts), phase by phase.  delta is in milliseconds. *)

HeapSet(w, id, e) == [w EXCEPT !.heap = [w.heap EXCEPT ![id] = e]]

\* The coordinates of the first tick's whole-grid rebuild: x < width, y < height
AllCoords == [i \in 1 .. (Width * Height) |-> << (i - 1) \div Height, (i - 1) % Height >>]

Initialize(w) ==
    IF w.initialized THEN w
    ELSE Then([w EXCEPT !.initialized = TRUE], LAMBDA w1 : updateGrid(w1, AllCoords))

\* The berry timer; bx is Math.round(2 + Math.random() * (width - 5))
BerrySpawnXs == IF Width > 5 THEN 2 .. (Width - 3) ELSE {2}
BerryDue(w, delta) == w.berryTimer - delta <= 0
SpawnBerry(w, delta, bx) ==
    IF BerryDue(w, delta)
    THEN World_add([w EXCEPT !.berryTimer = BERRY_TIMER_MAX],
                   berry(bx * Unit, 2 * Unit, (9 * Unit) \div 10, (9 * Unit) \div 10, 1, 20 * FoodUnit))
    ELSE [w EXCEPT !.berryTimer = @ - delta]

applyGravity(e, delta) ==
    IF /\ e.landed = Null
       /\ e.velocity.y < TERMINAL_VELOCITY * Unit
       /\ (~ hasComponents(e, {"groblin"}) \/ e.crawling = Null)
    THEN [e EXCEPT !.velocity.y = @ + (delta * GRAVITY * e.density * Unit) \div MsPerSec]
    ELSE e

Gravity(w, delta) ==
    Then(Range(having(w.ec, << "movable" >>, << >>)), LAMBDA movables :
    Then([id \in DOMAIN w.heap |->
             IF id \in movables THEN applyGravity(w.heap[id], delta) ELSE w.heap[id]],
         LAMBDA h :
            [w EXCEPT !.heap = h,
                      !.log.gravity = { id \in movables : h[id] # w.heap[id] }]))

\* The mutant: a need as urgent as the priority need takes the priority.
RECURSIVE TickNeeds_switchesOnTie(_, _, _)
TickNeeds_switchesOnTie(r, names, delta) ==
    IF names = << >> THEN r
    ELSE LET need == Head(names)
             e == r.e
         IN  Then(IF need = "food"
                  THEN [e EXCEPT !.needs.food = FoodTracker_tick(e.needs.food, delta)]
                  ELSE e,
                  LAMBDA ticked :
                     LET switch == \/ ticked.priority = ""
                                   \/ /\ need # ticked.priority
                                      /\ urgency(ticked.needs, need)
                                            >= urgency(ticked.needs, ticked.priority)
                     IN  Then(IF switch
                              THEN [e |-> ClearPriority([ticked EXCEPT !.priority = need]),
                                    cleared |-> r.cleared \/ need = "food"]
                              ELSE [e |-> ticked, cleared |-> r.cleared],
                              LAMBDA next : TickNeeds_switchesOnTie(next, Tail(names), delta)))

\* The mutant: the priority switches and the tracker keeps what it held.
RECURSIVE TickNeeds_keepsTracker(_, _, _)
TickNeeds_keepsTracker(r, names, delta) ==
    IF names = << >> THEN r
    ELSE LET need == Head(names)
             e == r.e
         IN  Then(IF need = "food"
                  THEN [e EXCEPT !.needs.food = FoodTracker_tick(e.needs.food, delta)]
                  ELSE e,
                  LAMBDA ticked :
                     LET switch == \/ ticked.priority = ""
                                   \/ /\ need # ticked.priority
                                      /\ urgency(ticked.needs, need)
                                            > urgency(ticked.needs, ticked.priority)
                     IN  Then(IF switch
                              THEN [e |-> [ticked EXCEPT !.priority = need],
                                    cleared |-> r.cleared \/ need = "food"]
                              ELSE [e |-> ticked, cleared |-> r.cleared],
                              LAMBDA next : TickNeeds_keepsTracker(next, Tail(names), delta)))

\* One pass of groblinSetPlan's loop over Object.entries(groblin.needs)
RECURSIVE TickNeeds(_, _, _)
TickNeeds(r, names, delta) ==
    IF names = << >> THEN r
    ELSE LET need == Head(names)
             e == r.e
         IN  Then(IF need = "food"
                  THEN [e EXCEPT !.needs.food = FoodTracker_tick(e.needs.food, delta)]
                  ELSE e,
                  LAMBDA ticked :
                     LET switch == \/ ticked.priority = ""
                                   \/ /\ need # ticked.priority
                                      /\ urgency(ticked.needs, need)
                                            > urgency(ticked.needs, ticked.priority)
                     IN  Then(IF switch
                              THEN [e |-> ClearPriority([ticked EXCEPT !.priority = need]),
                                    cleared |-> r.cleared \/ need = "food"]
                              ELSE [e |-> ticked, cleared |-> r.cleared],
                              LAMBDA next : TickNeeds(next, Tail(names), delta)))

\* view.grid is the world's own grid object: what plan() leaves of it is the world's grid
groblinSetPlan(w, me, delta) ==
    Then(TickNeeds([e |-> w.heap[me], cleared |-> FALSE], NeedNames, delta), LAMBDA needs :
    Then([HeapSet(w, me, needs.e) EXCEPT
             !.log.cleared = IF needs.cleared THEN @ \cup {me} ELSE @],
         LAMBDA w1 :
    Then(getView(w1, me, w1.heap[me].vision), LAMBDA view :
        IF needs.e.priority = "food"
        THEN Then(FoodTracker_plan(w1.heap, me, view, w1.log), LAMBDA r :
                IF r.thrown # ""
                THEN [w1 EXCEPT !.thrown = r.thrown, !.log = r.log, !.grid = r.grid,
                                !.heap[me].needs.food = r.tracker]
                ELSE [w1 EXCEPT !.log = r.log, !.grid = r.grid,
                                !.heap[me].needs.food = r.tracker,
                                !.heap[me].plan = r.tracker.plan])
        ELSE [w1 EXCEPT !.heap[me].plan = WaitPlan])))

\* One axis of groblinMove: full speed toward the waypoint, or exactly onto it
Toward(diff, speed, delta) ==
    IF Abs(diff) * MsPerSec > speed * delta THEN speed * Sign(diff)
    ELSE (diff * MsPerSec) \div delta

groblinMove(e, delta) ==
    IF e.plan.path = << >> THEN e
    ELSE LET xDiff == e.plan.path[1][1] * Unit - e.x
             yDiff == e.plan.path[1][2] * Unit - e.y
         IN  Then(IF e.velocity.y <= 0 \/ e.crawling # Null
                  THEN [e EXCEPT !.velocity.x = Toward(xDiff, e.speed, delta)] ELSE e,
                  LAMBDA e1 :
                     IF e1.crawling # Null
                     THEN [e1 EXCEPT !.velocity.y = Toward(yDiff, e.speed, delta)]
                     ELSE IF 2 * yDiff < -Unit /\ e1.landed # Null
                     THEN [e1 EXCEPT !.velocity.y = -(JUMP_POP * Unit)]
                     ELSE e1)

\* The mutant: an eat plan acts on its target, in the store or not.
Revalidated_always(w, what) == TRUE

\* this.view.entities.having(["edible"]).includes(groblin.plan.what)
Revalidated(w, what) == what \in Range(having(w.ec, << "edible" >>, << >>))

\* The body of the groblin loop for one groblin: plan, move, eat, crawling = null
GroblinStep(w, me, delta) ==
    Then(groblinSetPlan(w, me, delta), LAMBDA w1 :
        IF w1.thrown # "" THEN w1
        ELSE Then(IF w1.heap[me].plan.type = "move"
                  THEN HeapSet(w1, me, groblinMove(w1.heap[me], delta)) ELSE w1,
                  LAMBDA w2 :
                     LET what == w1.heap[me].plan.what
                         eats == w1.heap[me].plan.type = "eat" /\ Revalidated(w2, what)
                     IN  Then(IF eats
                              THEN World_remove(
                                      [w2 EXCEPT !.heap[me].needs.food =
                                                    FoodTracker_add(@, w2.heap[what].food),
                                                 !.log.ate = Append(@, [groblin |-> me, food |-> what])],
                                      what)
                              ELSE w2,
                              LAMBDA w3 : [w3 EXCEPT !.heap[me].crawling = Null])))

RECURSIVE GroblinLoop(_, _, _)
GroblinLoop(w, ids, delta) ==
    IF ids = << >> \/ w.thrown # "" THEN w
    ELSE Then(GroblinStep(w, Head(ids), delta), LAMBDA next :
            GroblinLoop(next, Tail(ids), delta))

Groblins(w, delta) ==
    Then(having(w.ec, << "groblin", "positioned", "movable", "collidable" >>, << >>),
         LAMBDA ids : GroblinLoop(w, ids, delta))

\* The mutant: landed is reset for every movable, moved or not.
ResetsLanded_always(w, id) == TRUE

\* "only reset landed if the object has moved"
ResetsLanded(w, id) == hasMoved(w.part, w.heap, id)

RECURSIVE ResetLoop(_, _)
ResetLoop(w, ids) ==
    IF ids = << >> THEN w
    ELSE LET id == Head(ids)
         IN  Then(IF ResetsLanded(w, id)
                  THEN [w EXCEPT !.heap[id].landed = Null,
                                 !.collidingPairs = Pairs_forget(@, id),
                                 !.log.reset = @ \cup {id}]
                  ELSE w,
                  LAMBDA next : ResetLoop(next, Tail(ids)))

ResetLanded(w) ==
    Then(having(w.ec, << "movable", "positioned", "collidable" >>, << >>),
         LAMBDA ids : ResetLoop(w, ids))


\* The mutant: the drag is subtracted whole, also from a velocity smaller than it.
collideWithBlock_dragOvershoots(m, b, bid, delta) ==
    LET dx == m.x - b.x
        dy == m.y - b.y
        overlapX2 == (m.width + b.width) - 2 * Abs(dx)      \* twice overlapX
        overlapY2 == (m.height + b.height) - 2 * Abs(dy)    \* twice overlapY
        dragStep == (DRAG * Unit * delta) \div MsPerSec
        bounce(v) == (-v) \div WallElasticityDen            \* v * -WALL_ELASTICITY
        vxDrag == m.velocity.x - dragStep * Sign(m.velocity.x)
        vxRight == Max(m.velocity.x, bounce(m.velocity.x))
        vxLeft == Min(m.velocity.x, bounce(m.velocity.x))
    IN  IF overlapX2 >= overlapY2
        THEN IF dy > 0
             THEN \* the bottom side of the block
                  [m EXCEPT !.velocity.y = Max(m.velocity.y, bounce(m.velocity.y)),
                            !.y = Max(m.y, b.y + b.height \div 2 + m.height \div 2)]
             ELSE \* the top side of the block
                  [m EXCEPT !.landed = bid,
                            !.velocity.y = Min(0, m.velocity.y),
                            !.velocity.x = vxDrag,
                            !.y = Min(m.y, b.y - b.height \div 2 - m.height \div 2 + Unit \div MsPerSec)]
        ELSE IF dx > 0
             THEN \* the right side of the block
                  [m EXCEPT !.velocity.x = vxRight,
                            !.x = Max(m.x, b.x + b.width \div 2 + m.width \div 2
                                           + (vxRight * delta) \div MsPerSec)]
             ELSE \* the left side of the block
                  [m EXCEPT !.velocity.x = vxLeft,
                            !.x = Min(m.x, b.x - b.width \div 2 - m.width \div 2
                                           + (vxLeft * delta) \div MsPerSec)]

\* collideWithBlock(movable, block): m and b are the entities' fields; the movable's new fields
collideWithBlock(m, b, bid, delta) ==
    LET dx == m.x - b.x
        dy == m.y - b.y
        overlapX2 == (m.width + b.width) - 2 * Abs(dx)      \* twice overlapX
        overlapY2 == (m.height + b.height) - 2 * Abs(dy)    \* twice overlapY
        dragStep == (DRAG * Unit * delta) \div MsPerSec
        bounce(v) == (-v) \div WallElasticityDen            \* v * -WALL_ELASTICITY
        vxDrag == m.velocity.x - dragStep * Sign(m.velocity.x)
        vxRight == Max(m.velocity.x, bounce(m.velocity.x))
        vxLeft == Min(m.velocity.x, bounce(m.velocity.x))
    IN  IF overlapX2 >= overlapY2
        THEN IF dy > 0
             THEN \* the bottom side of the block
                  [m EXCEPT !.velocity.y = Max(m.velocity.y, bounce(m.velocity.y)),
                            !.y = Max(m.y, b.y + b.height \div 2 + m.height \div 2)]
             ELSE \* the top side of the block
                  [m EXCEPT !.landed = bid,
                            !.velocity.y = Min(0, m.velocity.y),
                            !.velocity.x = IF Abs(vxDrag) < dragStep THEN 0 ELSE vxDrag,
                            !.y = Min(m.y, b.y - b.height \div 2 - m.height \div 2 + Unit \div MsPerSec)]
        ELSE IF dx > 0
             THEN \* the right side of the block
                  [m EXCEPT !.velocity.x = vxRight,
                            !.x = Max(m.x, b.x + b.width \div 2 + m.width \div 2
                                           + (vxRight * delta) \div MsPerSec)]
             ELSE \* the left side of the block
                  [m EXCEPT !.velocity.x = vxLeft,
                            !.x = Min(m.x, b.x - b.width \div 2 - m.width \div 2
                                           + (vxLeft * delta) \div MsPerSec)]

\* The body of the pair loop for obj1 = a, obj2 = b
CollidePair(w, a, b, delta) ==
    LET h0 == w.heap
        \* the collideWithBlock calls of this pair, in order
        calls == (IF hasComponents(h0[a], {"movable"}) /\ h0[b].passthrough = "solid"
                  THEN << << a, b >> >> ELSE << >>)
                 \o (IF hasComponents(h0[b], {"movable"}) /\ h0[a].passthrough = "solid"
                     THEN << << b, a >> >> ELSE << >>)
    IN  IF collision(h0[a], h0[b])
        THEN Then(IF hasComponents(h0[a], {"movable"}) /\ h0[b].passthrough = "solid"
                  THEN [h0 EXCEPT ![a] = collideWithBlock(h0[a], h0[b], b, delta)] ELSE h0,
                  LAMBDA h1 :
             Then(IF hasComponents(h1[b], {"movable"}) /\ h1[a].passthrough = "solid"
                  THEN [h1 EXCEPT ![b] = collideWithBlock(h1[b], h1[a], a, delta)] ELSE h1,
                  LAMBDA h2 :
             Then(IF hasComponents(h2[a], {"groblin"}) /\ h2[b].passthrough = "climbable"
                  THEN [h2 EXCEPT ![a].crawling = b] ELSE h2,
                  LAMBDA h3 :
             Then(IF hasComponents(h3[b], {"groblin"}) /\ h3[a].passthrough = "climbable"
                  THEN [h3 EXCEPT ![b].crawling = a] ELSE h3,
                  LAMBDA h4 :
                     [w EXCEPT !.heap = h4,
                               !.collidingPairs = Pairs_add(Pairs_add(@, a, b), b, a),
                               !.log.resolved = @ \o calls]))))
        ELSE w

\* for i, for j > i over one neighborhood
PairsOf(nb) ==
    Flat([i \in DOMAIN nb |-> [j \in 1 .. (Len(nb) - i) |-> << nb[i], nb[i + j] >>]])

\* the pairs[lo .. hi] in order, by halves
RECURSIVE CollideRange(_, _, _, _, _)
CollideRange(w, pairs, delta, lo, hi) ==
    IF lo > hi THEN w
    ELSE IF lo = hi THEN CollidePair(w, pairs[lo][1], pairs[lo][2], delta)
    ELSE Then(CollideRange(w, pairs, delta, lo, (lo + hi) \div 2),
              LAMBDA half : CollideRange(half, pairs, delta, (lo + hi) \div 2 + 1, hi))

CollideLoop(w, pairs, delta) == Then(w, LAMBDA w0 : CollideRange(w0, pairs, delta, 1, Len(pairs)))

\* neighborhoodsWithMovement() is taken before any response moves an entity
Collisions(w, delta) ==
    Then(neighborhoodsWithMovement(w.part, w.heap), LAMBDA neighborhoods :
    Then(Flat([i \in DOMAIN neighborhoods |-> PairsOf(neighborhoods[i])]), LAMBDA pairs :
        CollideLoop([w EXCEPT !.part = Partitions_clearMoved(w.part)], pairs, delta)))

IntegrateOne(w, id, delta) ==
    LET e == w.heap[id]
    IN  IF e.velocity.x # 0 \/ e.velocity.y # 0
        THEN Then([w.heap EXCEPT ![id].x = @ + (e.velocity.x * delta) \div MsPerSec,
                                 ![id].y = @ + (e.velocity.y * delta) \div MsPerSec],
                  LAMBDA h : [w EXCEPT !.heap = h, !.part = Partitions_move(w.part, h, id)])
        ELSE w

RECURSIVE IntegrateLoop(_, _, _)
IntegrateLoop(w, ids, delta) ==
    IF ids = << >> THEN w
    ELSE Then(IntegrateOne(w, Head(ids), delta), LAMBDA next :
            IntegrateLoop(next, Tail(ids), delta))

Integrate(w, delta) ==
    Then(having(w.ec, << "movable", "positioned", "collidable" >>, << >>),
         LAMBDA ids : IntegrateLoop(w, ids, delta))

\* World.tick(delta); an exception in the groblin loop leaves the tick there
tick(w, delta, bx) ==
    Then(Initialize(w), LAMBDA w1 :
    Then(SpawnBerry(w1, delta, bx), LAMBDA w2 :
    Then(Gravity(w2, delta), LAMBDA w3 :
    Then(Groblins(w3, delta), LAMBDA planned :
        IF planned.thrown # "" THEN planned
        ELSE Then(ResetLanded(planned), LAMBDA w4 :
             Then(Collisions(w4, delta), LAMBDA w5 : Integrate(w5, delta)))))))


-----------------------------------------------------------------------------
(* The application (app.ts): the worlds the behaviours start from *)

Speed == 3
Vision == 20
Deltas == {10}              \* the frame time, in milliseconds
EditTiles == { << 3, 2 >>, << 3, 3 >>, << 4, 4 >> }

\* the two border loops of createApp; the corners are added twice
Border ==
    Flat([x \in 1 .. (Width + 1) |-> << << x - 1, Height >>, << x - 1, 0 >> >>])
    \o Flat([y \in 1 .. (Height + 1) |-> << << Width, y - 1 >>, << 0, y - 1 >> >>])

RECURSIVE AddObjectsRange(_, _, _, _)
AddObjectsRange(w, objects, lo, hi) ==
    IF lo > hi THEN w
    ELSE IF lo = hi THEN World_add(w, objects[lo])
    ELSE Then(AddObjectsRange(w, objects, lo, (lo + hi) \div 2),
              LAMBDA half : AddObjectsRange(half, objects, (lo + hi) \div 2 + 1, hi))

AddObjects(w, objects) == AddObjectsRange(w, objects, 1, Len(objects))

AddBlocks(w, ts) == AddObjects(w, [i \in DOMAIN ts |-> block(ts[i][1] * Unit, ts[i][2] * Unit)])

Thresholds == [starving |-> 10 * FoodUnit, hungry |-> 30 * FoodUnit, full |-> 70 * FoodUnit]

Agent(x, y, initial) ==
    groblin(x, y, (9 * Unit) \div 10, Unit, 1,
            [food |-> NewFoodTracker(initial, 100 * FoodUnit, Thresholds),
             relax |-> NewRelaxTracker(50 * FoodUnit, 100 * FoodUnit)],
            Vision * Unit, Speed * Unit)

\* an agent whose relax need is met: its urgency is 0, the urgency of a full food need
Relaxed(x, y, initial) ==
    [Agent(x, y, initial) EXCEPT !.needs.relax = NewRelaxTracker(100 * FoodUnit, 100 * FoodUnit)]

Edible(x, y) == berry(x, y, (9 * Unit) \div 10, (9 * Unit) \div 10, 1, 20 * FoodUnit)

\* terrain tiles, then the border, then the agent, then the edibles
Scene(terrain, objects) ==
    Then(AddBlocks(NewWorld, terrain), LAMBDA w1 :
    Then(AddBlocks(w1, Border), LAMBDA w2 : AddObjects(w2, objects)))

ScenarioNames ==
    { "app", "hungry", "sealed", "twoFoods", "platform", "pair", "offCentre", "cellEdge",
      "tunnel", "shelf" }

Scenario(name) ==
    CASE name = "app" ->
            \* createApp: the agent and the edible at one point in the air, food 50 of 100
            Scene(<< >>, << Agent(3 * Unit, 4 * Unit, 50 * FoodUnit),
                            Edible(3 * Unit, 4 * Unit) >>)
      [] name = "hungry" ->
            Scene(<< >>, << Agent(3 * Unit, 4 * Unit, 30 * FoodUnit),
                            Edible(3 * Unit, 4 * Unit) >>)
      [] name = "sealed" ->
            \* an edible on top of a pillar two tiles high, out of reach
            Scene(<< << 4, 4 >>, << 4, 3 >> >>,
                  << Agent(2 * Unit, 3 * Unit, 30 * FoodUnit),
                     Edible(4 * Unit, 2 * Unit) >>)
      [] name = "twoFoods" ->
            \* a far edible that lands first and a nearer one that lands later
            Scene(<< >>, << Agent(1 * Unit, 4 * Unit, 30 * FoodUnit),
                            Edible(5 * Unit, 4 * Unit),
                            Edible(3 * Unit, 3 * Unit) >>)
      [] name = "platform" ->
            \* a platform in the row where the berries appear
            Scene(<< << 2, 2 >>, << 3, 2 >>, << 4, 2 >> >>,
                  << Agent(2 * Unit, 1 * Unit, 30 * FoodUnit) >>)
      [] name = "pair" ->
            \* two agents on the platform, the second one with both needs met
            Scene(<< << 2, 2 >>, << 3, 2 >>, << 4, 2 >> >>,
                  << Agent(2 * Unit, 1 * Unit, 30 * FoodUnit),
                     Relaxed(3 * Unit, 1 * Unit, 50 * FoodUnit) >>)
      [] name = "offCentre" ->
            \* an edible that rests off the centre of its tile, the agent a tile's width away
            Scene(<< >>, << Agent((349 * Unit) \div 100, 4 * Unit, 30 * FoodUnit),
                            Edible((251 * Unit) \div 100, (404 * Unit) \div 100) >>)
      [] name = "cellEdge" ->
            \* an edible at rest near the far side of the cell next to the agent's
            Scene(<< >>, << Agent((220 * Unit) \div 100, 4 * Unit, 30 * FoodUnit),
                            Edible((120 * Unit) \div 100, (404 * Unit) \div 100) >>)
      [] name = "tunnel" ->
            \* two caves in the air side by side, an agent in the first, an edible at
            \* rest on a block at the far end
            Scene(<< << 4, 4 >> >>, << cave(2 * Unit, 3 * Unit), cave(3 * Unit, 3 * Unit),
                                       Agent(2 * Unit, 3 * Unit, 30 * FoodUnit),
                                       Edible(4 * Unit, (305 * Unit) \div 100) >>)
      [] name = "shelf" ->
            \* an edible on a shelf straight above the agent, another on the floor two
            \* tiles to the side
            Scene(<< << 1, 2 >> >>, << Agent(1 * Unit, 4 * Unit, 30 * FoodUnit),
                                       Edible(1 * Unit, 1 * Unit),
                                       Edible(3 * Unit, 4 * Unit) >>)

-----------------------------------------------------------------------------
(* The state machine of the running world *)

TheWorld ==
    [heap |-> heap, nextId |-> nextId,
     ec |-> [entities |-> entities, componentMap |-> componentMap],
     part |-> [partitions |-> partitions, reversePartitions |-> reversePartitions,
               moved |-> moved],
     collidingPairs |-> collidingPairs, grid |-> grid, berryTimer |-> berryTimer,
     initialized |-> initialized, keys |-> keys, thrown |-> "", log |-> EmptyLog]

Install(w) ==
    /\ heap' = w.heap
    /\ nextId' = w.nextId
    /\ entities' = w.ec.entities
    /\ componentMap' = w.ec.componentMap
    /\ partitions' = w.part.partitions
    /\ reversePartitions' = w.part.reversePartitions
    /\ moved' = w.part.moved
    /\ collidingPairs' = w.collidingPairs
    /\ grid' = w.grid
    /\ berryTimer' = w.berryTimer
    /\ initialized' = w.initialized
    /\ keys' = w.keys
    /\ thrown' = w.thrown
    /\ log' = w.log
    /\ UNCHANGED search

InitWorld(w) ==
    /\ heap = w.heap
    /\ nextId = w.nextId
    /\ entities = w.ec.entities
    /\ componentMap = w.ec.componentMap
    /\ partitions = w.part.partitions
    /\ reversePartitions = w.part.reversePartitions
    /\ moved = w.part.moved
    /\ collidingPairs = w.collidingPairs
    /\ grid = w.grid
    /\ berryTimer = w.berryTimer
    /\ initialized = w.initialized
    /\ keys = w.keys
    /\ thrown = ""
    /\ log = EmptyLog
    /\ search = NoSearch
    /\ lastOp = "new"
    /\ halted = FALSE
    /\ nTicks = 0
    /\ nEdits = 0
    /\ nBerries = 0

Init == \E name \in ScenarioNames : \E w \in { Scenario(name) } : InitWorld(w)

\* one frame of the ticker
Tick ==
    /\ ~ halted
    /\ nTicks < MaxTicks
    /\ \E delta \in Deltas :
          /\ BerryDue(TheWorld, delta) => nBerries < MaxBerries
          /\ \E bx \in (IF BerryDue(TheWorld, delta) THEN BerrySpawnXs ELSE {2}) :
                \E w \in { tick(TheWorld, delta, bx) } :
                    /\ Install(w)
                    /\ halted' = (w.thrown # "")
                    /\ nBerries' = IF BerryDue(TheWorld, delta) THEN nBerries + 1 ELSE nBerries
    /\ lastOp' = "tick"
    /\ nTicks' = nTicks + 1
    /\ UNCHANGED nEdits

\* a click on a tile
PointerDown ==
    /\ nEdits < MaxEdits
    /\ \E t \in EditTiles : \E w \in { pointerDown(TheWorld, t[1], t[2]) } : Install(w)
    /\ lastOp' = "pointerDown"
    /\ nEdits' = nEdits + 1
    /\ UNCHANGED << halted, nTicks, nBerries >>

Next == Tick \/ PointerDown

Spec == Init /\ [][Next]_vars


-----------------------------------------------------------------------------
(* The partitions on their own: add, move and neighborhoodsWithMovement in any order *)

MaxPart == 2         \* objects created in one behaviour of the partitions

PartPoints == { << 1 * Unit, 1 * Unit >>, << 3 * Unit, 1 * Unit >>, << 3 * Unit, 3 * Unit >> }

PartKinds ==
    { block(pt[1], pt[2]) : pt \in PartPoints } \cup { Edible(pt[1], pt[2]) : pt \in PartPoints }

InitPartitions == InitWorld(NewWorld)

\* log.dirtied: the cells a movable was added to or moved in since the last query
PartInstall(h, p, op, l) ==
    /\ heap' = h
    /\ nextId' = Len(h) + 1
    /\ partitions' = p.partitions
    /\ reversePartitions' = p.reversePartitions
    /\ moved' = p.moved
    /\ lastOp' = op
    /\ log' = l
    /\ UNCHANGED << search, entities, componentMap, collidingPairs, grid, berryTimer, initialized,
                    keys, thrown, halted, nTicks, nEdits, nBerries >>

\* partitions.add(entity) of a new object
PartAdd ==
    /\ nextId <= MaxPart
    /\ \E object \in PartKinds :
          LET h == MapSet(heap, nextId, object)
          IN  PartInstall(h, Partitions_add(TheWorld.part, h, nextId), "add",
                          IF hasComponents(object, {"movable"})
                          THEN [log EXCEPT !.dirtied = SetAdd(@, getCellKey(object.x, object.y))]
                          ELSE log)

\* movable.x += ...; movable.y += ...; partitions.move(movable)
PartMove ==
    \E id \in DOMAIN heap : \E pt \in PartPoints :
        /\ hasComponents(heap[id], {"movable"})
        /\ LET h == [heap EXCEPT ![id].x = pt[1], ![id].y = pt[2]]
           IN  PartInstall(h, Partitions_move(TheWorld.part, h, id), "move",
                           [log EXCEPT !.dirtied = SetAdd(@, getCellKey(pt[1], pt[2]))])

\* partitions.neighborhoodsWithMovement()
PartQuery ==
    PartInstall(heap, Partitions_clearMoved(TheWorld.part), "query",
                [EmptyLog EXCEPT !.hoods = neighborhoodsWithMovement(TheWorld.part, heap)])

NextPartitions == PartAdd \/ PartMove \/ PartQuery

SpecPartitions == InitPartitions /\ [][NextPartitions]_vars

-----------------------------------------------------------------------------
(* The input handlers on a running world: pointerDown, keyDown and keyUp in any   *)
(* order, on a world that has ticked for a while                                  *)

MaxClicks == 2       \* pointerDown calls in one behaviour of the input handlers

WarmTicks == { 0, 3, 8 }
InputKeys == { "ArrowLeft", "ArrowRight" }
ClickTiles == { << 3, 3 >>, << 4, 4 >> }

\* k frames of the ticker, stopped by an uncaught error
RECURSIVE Warm(_, _)
Warm(w, k) ==
    IF k = 0 \/ w.thrown # "" THEN w
    ELSE Then(tick([w EXCEPT !.log = EmptyLog], 10, 2), LAMBDA next : Warm(next, k - 1))

InitInput ==
    \E name \in ScenarioNames : \E k \in WarmTicks :
        \E w \in { Warm(Scenario(name), k) } : w.thrown = "" /\ InitWorld(w)

InputInstall(w, op) ==
    /\ Install(w)
    /\ lastOp' = op
    /\ UNCHANGED << halted, nTicks, nBerries >>

InputKeyDown ==
    /\ \E key \in InputKeys : InputInstall(keyDown(TheWorld, key), "keyDown")
    /\ UNCHANGED nEdits

InputKeyUp ==
    /\ \E key \in InputKeys : InputInstall(keyUp(TheWorld, key), "keyUp")
    /\ UNCHANGED nEdits

InputPointerDown ==
    /\ nEdits < MaxClicks
    /\ \E t \in ClickTiles : InputInstall(pointerDown(TheWorld, t[1], t[2]), "pointerDown")
    /\ nEdits' = nEdits + 1

NextInput == InputKeyDown \/ InputKeyUp \/ InputPointerDown

SpecInput == InitInput /\ [][NextInput]_vars

-----------------------------------------------------------------------------
(* The gravity step on its own: applyGravity on one movable, frame after frame,  *)
(* for several frame times and densities.  heap[1] is a block, heap[2] a cave,   *)
(* heap[3] the movable.                                                          *)

MaxFall == 12        \* gravity steps in one behaviour

GravityDeltas == { 10, 16 }       \* milliseconds
GravityDensities == { 1, 2 }
GravityMovables ==
    { [Agent(0, 0, 50 * FoodUnit) EXCEPT !.density = d, !.landed = l, !.crawling = c] :
          d \in GravityDensities, l \in { Null, 1 }, c \in { Null, 2 } }
    \cup { [Edible(0, 0) EXCEPT !.density = d, !.landed = l] :
          d \in GravityDensities, l \in { Null, 1 } }

InitGravity ==
    \E movable \in GravityMovables :
        InitWorld([NewWorld EXCEPT !.heap = << block(0, Unit), cave(0, 0), movable >>,
                                   !.nextId = 4])

\* this.view.entities.having(["movable"]).forEach(applyGravity), for the one movable
GravityStep ==
    /\ nTicks < MaxFall
    /\ \E delta \in GravityDeltas : heap' = [heap EXCEPT ![3] = applyGravity(heap[3], delta)]
    /\ lastOp' = "gravity"
    /\ nTicks' = nTicks + 1
    /\ UNCHANGED << search, nextId, entities, componentMap, partitions, reversePartitions, moved,
                    collidingPairs, grid, berryTimer, initialized, keys, thrown, halted, log,
                    nEdits, nBerries >>

SpecGravity == InitGravity /\ [][GravityStep]_vars

-----------------------------------------------------------------------------
(* The collision response on its own: collideWithBlock for one movable that     *)
(* overlaps one block, over a grid of offsets and velocities.  heap[1] is the   *)
(* block, at the origin; heap[2] the movable.                                   *)

CollideOffsets == { (p * Unit) \div 100 : p \in { -95, -90, -50, 0, 50, 90, 95 } }
CollideVelocities == { (p * Unit) \div 100 : p \in { -300, -2, 0, 2, 5, 300 } }
CollideDeltas == { 10, 16 }       \* milliseconds

InitCollide ==
    \E dx \in CollideOffsets, dy \in CollideOffsets, vx \in CollideVelocities,
       vy \in CollideVelocities :
        \E movable \in { [Edible(dx, dy) EXCEPT !.velocity = [x |-> vx, y |-> vy]] } :
            /\ collision(movable, block(0, 0))
            /\ InitWorld([NewWorld EXCEPT !.heap = << block(0, 0), movable >>, !.nextId = 3])

\* collideWithBlock(obj1, obj2) of the collision loop, for the one pair
CollideStep ==
    /\ lastOp = "new"
    /\ \E delta \in CollideDeltas :
          heap' = [heap EXCEPT ![2] = collideWithBlock(heap[2], heap[1], 1, delta)]
    /\ lastOp' = "collide"
    /\ UNCHANGED << search, nextId, entities, componentMap, partitions, reversePartitions, moved,
                    collidingPairs, grid, berryTimer, initialized, keys, thrown, halted, log,
                    nTicks, nEdits, nBerries >>

SpecCollide == InitCollide /\ [][CollideStep]_vars

-----------------------------------------------------------------------------
(* The needs of one agent on their own: the need loop of groblinSetPlan, the    *)
(* plan call by its outcomes on the tracker, and the meal of the groblin loop.  *)
(* heap[1] is the agent, in no world; 2 stands for an edible.                   *)

MaxNeedSteps == 6    \* steps in one behaviour of the needs

NeedsInitials == { 30 * FoodUnit, 70 * FoodUnit, 90 * FoodUnit }
NeedsRelax == { 50 * FoodUnit, 100 * FoodUnit }
NeedsThresholds ==
    { Thresholds,
      [starving |-> 10 * FoodUnit, hungry |-> 70 * FoodUnit, full |-> 70 * FoodUnit] }
NeedsDeltas == { 10, 100 }        \* milliseconds
NeedsMeals == { 2 * FoodUnit, 20 * FoodUnit }
NeedsPlans == { WaitPlan, EatPlan(2), MovePlan([ref |-> 2, x |-> 0, y |-> 0], << << 1, 1 >> >>) }

InitNeeds ==
    \E initial \in NeedsInitials, thresholds \in NeedsThresholds, relax \in NeedsRelax :
        InitWorld([NewWorld EXCEPT
            !.heap = << [Agent(0, 0, initial) EXCEPT
                            !.needs.food = NewFoodTracker(initial, 100 * FoodUnit, thresholds),
                            !.needs.relax = NewRelaxTracker(relax, 100 * FoodUnit)] >>,
            !.nextId = 2])

NeedsInstall(e, cleared, op) ==
    /\ nTicks < MaxNeedSteps
    /\ heap' = [heap EXCEPT ![1] = e]
    /\ log' = [EmptyLog EXCEPT !.cleared = IF cleared THEN {1} ELSE {}]
    /\ lastOp' = op
    /\ nTicks' = nTicks + 1
    /\ UNCHANGED << search, nextId, entities, componentMap, partitions, reversePartitions, moved,
                    collidingPairs, grid, berryTimer, initialized, keys, thrown, halted,
                    nEdits, nBerries >>

\* groblinSetPlan, up to the plan call: the loop over the needs
NeedsLoop ==
    /\ lastOp \in { "new", "plan", "meal" }
    /\ \E delta \in NeedsDeltas :
          \E r \in { TickNeeds([e |-> heap[1], cleared |-> FALSE], NeedNames, delta) } :
              NeedsInstall(r.e, r.cleared, "needs")

\* groblin.plan = groblin.needs[groblin.priority].plan(groblin, view): FoodTracker.plan
\* leaves one of its plans in the tracker and adds to the inaccessible set or not;
\* RelaxTracker.plan returns wait and keeps nothing
NeedsPlan ==
    /\ lastOp = "needs"
    /\ IF heap[1].priority = "food"
       THEN \E plan \in NeedsPlans, marked \in { {}, {2} } :
               NeedsInstall([heap[1] EXCEPT !.needs.food.plan = plan,
                                            !.needs.food.inaccessibleFood = @ \cup marked,
                                            !.plan = plan], FALSE, "plan")
       ELSE NeedsInstall([heap[1] EXCEPT !.plan = WaitPlan], FALSE, "plan")

\* the eat step of the groblin loop: groblin.needs.food.add(groblin.plan.what.food)
NeedsMeal ==
    /\ lastOp = "plan"
    /\ heap[1].plan.type = "eat"
    /\ \E food \in NeedsMeals :
          NeedsInstall([heap[1] EXCEPT !.needs.food = FoodTracker_add(@, food)], FALSE, "meal")

NextNeeds == NeedsLoop \/ NeedsPlan \/ NeedsMeal

SpecNeeds == InitNeeds /\ [][NextNeeds]_vars

-----------------------------------------------------------------------------
(* The entity store on its own: EntityCollection.add and remove in any order *)

MaxStore == 3        \* objects created in one behaviour of the store

StoreKinds ==
    { block(0, 0), cave(0, 0), Edible(0, 0), Agent(0, 0, 50 * FoodUnit) }

InitStore == InitWorld(NewWorld)

StoreInstall(h, ec, op) ==
    /\ heap' = h
    /\ nextId' = Len(h) + 1
    /\ entities' = ec.entities
    /\ componentMap' = ec.componentMap
    /\ lastOp' = op
    /\ UNCHANGED << search, partitions, reversePartitions, moved, collidingPairs, grid, berryTimer,
                    initialized, keys, thrown, halted, log, nTicks, nEdits, nBerries >>

\* add(entity) of a new object
StoreAdd ==
    /\ nextId <= MaxStore
    /\ \E object \in StoreKinds :
          LET h == MapSet(heap, nextId, object)
          IN  StoreInstall(h, EntityCollection_add(TheWorld.ec, h, nextId), "add")

\* add(entity) of an object that was added before, in the store or removed from it
StoreAddAgain ==
    \E id \in DOMAIN heap :
        StoreInstall(heap, EntityCollection_add(TheWorld.ec, heap, id), "addAgain")

\* remove(entity), of an object in the store or not
StoreRemove ==
    \E id \in DOMAIN heap :
        StoreInstall(heap, EntityCollection_remove(TheWorld.ec, heap, id), "remove")

NextStore == StoreAdd \/ StoreAddAgain \/ StoreRemove

SpecStore == InitStore /\ [][NextStore]_vars

-----------------------------------------------------------------------------
(* A food tracker on its own: set, add and tick in any order.  The tracker is *)
(* heap[1].needs.food of an agent that is in no world.                        *)

TrackerThresholds ==
    { Thresholds,
      [starving |-> 20 * FoodUnit, hungry |-> 40 * FoodUnit, full |-> 60 * FoodUnit] }
TrackerInitials == { 5 * FoodUnit, 35 * FoodUnit, 50 * FoodUnit, 90 * FoodUnit }
TrackerValues ==
    { p * FoodUnit : p \in { -5, 0, 9, 10, 11, 29, 30, 31, 50, 69, 70, 71, 100, 120 } }
TrackerAmounts == { p * FoodUnit : p \in { -25, -1, 1, 20 } }
TrackerDeltas == { 100 }    \* milliseconds: one point of food

\* new FoodTracker(initial, 100, thresholds), held by an agent that is in no world
TrackerWorld(initial, thresholds) ==
    [NewWorld EXCEPT
        !.heap = << [Agent(0, 0, initial) EXCEPT
                        !.needs.food = NewFoodTracker(initial, 100 * FoodUnit, thresholds)] >>,
        !.nextId = 2]

InitTracker ==
    \E initial \in TrackerInitials, thresholds \in TrackerThresholds :
        InitWorld(TrackerWorld(initial, thresholds))

TrackerInstall(t, op) ==
    /\ heap' = [heap EXCEPT ![1].needs.food = t]
    /\ lastOp' = op
    /\ UNCHANGED << search, nextId, entities, componentMap, partitions, reversePartitions, moved,
                    collidingPairs, grid, berryTimer, initialized, keys, thrown, halted, log,
                    nTicks, nEdits, nBerries >>

TrackerSet ==
    \E value \in TrackerValues : TrackerInstall(FoodTracker_set(heap[1].needs.food, value), "set")

TrackerAdd ==
    \E amount \in TrackerAmounts :
        TrackerInstall(FoodTracker_add(heap[1].needs.food, amount), "add")

TrackerTick ==
    \E delta \in TrackerDeltas :
        TrackerInstall(FoodTracker_tick(heap[1].needs.food, delta), "tick")

NextTracker == TrackerSet \/ TrackerAdd \/ TrackerTick

SpecTracker == InitTracker /\ [][NextTracker]_vars


-----------------------------------------------------------------------------
(* Route search on its own: one route() call between two walkable tiles of a  *)
(* small region, for every walkability of the region.  The agent is heap[1],  *)
(* in no world; the path found is kept as its plan.                           *)

RouteRegion == (1 .. 3) \X (1 .. 3)
RouteOffsets == { 0, (49 * Unit) \div 100 }

InitRoute ==
    \E open \in SUBSET RouteRegion :
        InitWorld([TrackerWorld(50 * FoodUnit, Thresholds) EXCEPT
                      !.grid = [t \in Tiles |-> t \in open]])

\* groblin.plan = { type: "move", to, path: route(planner, to, grid) }
RoutePlan ==
    \E from \in RouteRegion, target \in RouteRegion, off \in RouteOffsets :
        /\ lastOp = "new"
        /\ grid[from]
        /\ grid[target]
        /\ \E planner \in { [heap[1] EXCEPT !.x = from[1] * Unit + off, !.y = from[2] * Unit - off] } :
              \E to \in { [ref |-> Null, x |-> target[1] * Unit - off, y |-> target[2] * Unit + off] } :
                /\ heap' = [heap EXCEPT ![1] = [planner EXCEPT
                                                   !.plan = MovePlan(to, route(planner, to, grid).path)]]
                /\ lastOp' = "route"
                /\ UNCHANGED << search, nextId, entities, componentMap, partitions, reversePartitions,
                                moved, collidingPairs, grid, berryTimer, initialized, keys,
                                thrown, halted, log, nTicks, nEdits, nBerries >>

SpecRoute == InitRoute /\ [][RoutePlan]_vars

-----------------------------------------------------------------------------
(* Frontier exploration on its own: one explore() call, a turn of its while     *)
(* loop at a time, for every walkability of a small region.  The agent is       *)
(* heap[1], in no world; the path returned is kept as its plan.                 *)

ExploreRegion == (1 .. 3) \X (1 .. 3)
ExploreOffsets == { 0, (40 * Unit) \div 100 }
ExploreVisions == { 2 * Unit, Vision * Unit }
ExploreDirections == { -1, 1 }

InitExplore ==
    \E open \in SUBSET ExploreRegion :
        InitWorld([TrackerWorld(50 * FoodUnit, Thresholds) EXCEPT
                      !.grid = [t \in Tiles |-> t \in open]])

ExploreInstall(e, s, op) ==
    /\ heap' = [heap EXCEPT ![1] = e]
    /\ search' = s
    /\ lastOp' = op
    /\ UNCHANGED << nextId, entities, componentMap, partitions, reversePartitions, moved,
                    collidingPairs, grid, berryTimer, initialized, keys, thrown, halted, log,
                    nTicks, nEdits, nBerries >>

\* explore(planner, grid, exploreDirection) is called: toVisit holds the rounded tile
ExploreBegin ==
    /\ lastOp = "new"
    /\ \E from \in ExploreRegion, off \in ExploreOffsets, vision \in ExploreVisions,
          dir \in ExploreDirections :
          /\ grid[from]
          /\ ExploreInstall([heap[1] EXCEPT !.x = from[1] * Unit + off, !.y = from[2] * Unit,
                                            !.vision = vision,
                                            !.needs.food.exploreDirection.x = dir],
                            [toVisit |-> << [tile |-> from, path |-> << >>] >>, sp |-> << >>,
                             farthest |-> from],
                            "explore")

\* one turn of while (toVisit.length > 0)
ExploreTurn ==
    /\ lastOp = "explore"
    /\ search.toVisit # << >>
    /\ ExploreInstall(heap[1],
                      ExploreStep(grid, heap[1], heap[1].needs.food.exploreDirection.x, search),
                      "explore")

\* return shortestPathToPoint.get(getKey(farthestPoint.x, farthestPoint.y)) ?? []
ExploreReturn ==
    /\ lastOp = "explore"
    /\ search.toVisit = << >>
    /\ ExploreInstall([heap[1] EXCEPT !.plan =
                          MovePlan([ref |-> Null, x |-> search.farthest[1] * Unit,
                                    y |-> search.farthest[2] * Unit],
                                   IF search.farthest \in DOMAIN search.sp
                                   THEN search.sp[search.farthest] ELSE << >>)],
                      search, "explored")

NextExplore == ExploreBegin \/ ExploreTurn \/ ExploreReturn

SpecExplore == InitExplore /\ [][NextExplore]_vars

\* the loop runs whenever it can: explore is one synchronous call
SpecExploreRuns == SpecExplore /\ WF_vars(ExploreTurn) /\ WF_vars(ExploreReturn)

-----------------------------------------------------------------------------
(* What the claims speak about *)

GroblinIds == { id \in Range(entities) : hasComponents(heap[id], {"groblin"}) }
EdibleIds == { id \in Range(entities) : hasComponents(heap[id], {"edible"}) }
MovableIds == { id \in Range(entities) : hasComponents(heap[id], {"movable"}) }

\* a step that is one World.tick
TickStep == lastOp' = "tick" /\ nTicks' = nTicks + 1

\* the food value after one tick's decay and a meal of some food value
Fed(t, delta, food) ==
    Min(t.max, Max(t.min, t.value - (delta * 10 * FoodUnit) \div MsPerSec) + food)

\* the route calls the last operation made for the groblin g
RoutedFor(lg, g) == { lg.routed[i].food : i \in { j \in DOMAIN lg.routed : lg.routed[j].groblin = g } }
FailedFor(lg, g) ==
    { lg.routed[i].food : i \in { j \in DOMAIN lg.routed :
                                     lg.routed[j].groblin = g /\ ~ lg.routed[j].found } }

-----------------------------------------------------------------------------
(* C1 *)

\* C1 as the specification states it: when an agent and an edible start at one point,
\* overlapping, the first World.tick leaves the agent with the plan "eat".
C1_FirstTickEats ==
    [][ (lastOp = "new" /\ TickStep) =>
            \A g \in GroblinIds, e \in EdibleIds :
                collision(heap[g], heap[e]) => heap'[g].plan.type = "eat" ]_vars

\* the edible objects the partition still holds, in the store or not
RegisteredEdibles ==
    { id \in DOMAIN heap : /\ hasComponents(heap[id], {"edible"})
                           /\ \E k \in DOMAIN partitions : id \in Range(partitions[k]) }

\* C1, amended: a tick leaves an agent with the plan "eat" only for an edible that,
\* when the tick began, was landed and recorded in collidingPairs with the agent (by
\* the collision phase of an earlier tick); the edible is not in the store after the
\* tick, and when it was in the store before, the tick has removed it from the store
\* and its index and left the food value at the decayed value plus the edible's food,
\* capped at max.  And when food is the agent's priority and every landed edible the
\* partition holds is such a one, the tick does leave the plan "eat" for one of them.
C1_EatsTouchedLandedFood ==
    [][ TickStep =>
            \A g \in GroblinIds :
                LET e == heap'[g].plan.what
                    touched == { f \in RegisteredEdibles :
                                    /\ heap[f].landed # Null
                                    /\ f \in Pairs_get(collidingPairs, g)
                                    /\ f \notin heap[g].needs.food.inaccessibleFood }
                IN  /\ heap'[g].plan.type = "eat" =>
                          /\ e \in touched
                          /\ e \notin Range(entities')
                          /\ \A c \in ComponentNames : e \notin Range(componentMap'[c])
                          /\ e \in Range(entities) =>
                                \E delta \in Deltas :
                                    heap'[g].needs.food.value =
                                        Fed(heap[g].needs.food, delta, heap[e].food)
                    /\ ( /\ heap'[g].priority = "food"
                         /\ touched # {}
                         /\ \A f \in RegisteredEdibles : heap[f].landed # Null => f \in touched )
                       => heap'[g].plan.type = "eat" /\ e \in touched ]_vars

\* C1's case is reached: a tick ended with the plan "eat" and its edible removed
C1_Witness ==
    /\ lastOp = "tick"
    /\ \E g \in GroblinIds : /\ heap[g].plan.type = "eat"
                             /\ heap[g].plan.what \in log.removed
                             /\ heap[g].plan.what \notin Range(entities)

-----------------------------------------------------------------------------
(* C2 *)

\* the tracker of g holds a Move plan toward the food T, in the store and landed,
\* and food is and stays the priority of g in the step
HeadsFor(g, T) ==
    /\ heap[g].needs.food.plan.type = "move"
    /\ heap[g].needs.food.plan.to.ref = T
    /\ T \in EdibleIds
    /\ heap[T].landed # Null
    /\ heap[g].priority = "food"
    /\ heap'[g].priority = "food"

\* the plan of g's tracker after the step is the one before, its first waypoint
\* dropped exactly when g is within half a tile of it on both axes
Followed(g) ==
    LET plan == heap[g].needs.food.plan
        near == /\ 2 * Abs(plan.path[1][1] * Unit - heap[g].x) < Unit
                /\ 2 * Abs(plan.path[1][2] * Unit - heap[g].y) < Unit
    IN  heap'[g].needs.food.plan =
            [plan EXCEPT !.path = IF near THEN Tail(plan.path) ELSE plan.path]

-----------------------------------------------------------------------------
(* C3 *)

Inaccessible(g) == heap[g].needs.food.inaccessibleFood

\* a marked edible stays marked and is not routed to, in a tick that does not clear
\* the tracker
NoSecondAttempt(g) ==
    g \notin log'.cleared =>
        \A f \in Inaccessible(g) :
            f \in heap'[g].needs.food.inaccessibleFood /\ f \notin RoutedFor(log', g)

\* C3 as the specification states it: one failed route attempt marks the edible
\* inaccessible, and until the cache is cleared no route call is made for it again.
C3_MarkedAfterOneFailure ==
    [][ TickStep =>
            \A g \in GroblinIds :
                /\ FailedFor(log', g) \subseteq heap'[g].needs.food.inaccessibleFood
                /\ NoSecondAttempt(g) ]_vars

\* C3, amended: a failed route attempt marks the edible inaccessible when the agent
\* is landed or crawling as it plans, and only then; the plan the tick leaves does not
\* head for a marked edible, and an agent that holds no plan to move explores in that
\* tick; until the cache is cleared no route call is made again for a marked edible.
C3_MarkedWhenLanded ==
    [][ TickStep =>
            \A g \in GroblinIds :
                LET grounded == heap[g].landed # Null \/ heap[g].crawling # Null
                    failed == FailedFor(log', g)
                IN  /\ failed # {} =>
                          /\ grounded => failed \subseteq heap'[g].needs.food.inaccessibleFood
                          /\ ~ grounded => failed \cap heap'[g].needs.food.inaccessibleFood
                                               \subseteq Inaccessible(g)
                          /\ heap'[g].needs.food.plan.to.ref \notin failed
                          /\ ( /\ grounded
                               /\ thrown' = ""
                               /\ heap[g].needs.food.plan.type # "move"
                               /\ heap'[g].needs.food.plan.to.ref = Null
                               /\ heap'[g].needs.food.plan.type # "eat" )
                             => g \in log'.explored
                    /\ log'.marked \cap RoutedFor(log', g) \subseteq failed
                    /\ NoSecondAttempt(g) ]_vars

\* C3's case is reached: a tick planned for food with a landed edible marked by an
\* earlier tick, and made no route call for it
C3_Witness ==
    /\ lastOp = "tick"
    /\ thrown = ""
    /\ \E g \in GroblinIds, f \in EdibleIds :
          /\ heap[g].priority = "food"
          /\ heap[f].landed # Null
          /\ f \in Inaccessible(g)
          /\ f \notin log.marked
          /\ g \notin log.cleared
          /\ g \in log.explored
          /\ f \notin RoutedFor(log, g)

-----------------------------------------------------------------------------
(* C4 *)

-----------------------------------------------------------------------------
(* C5 *)

SolidAt(x, y) == HasTerrainAt(TheWorld, "solid", x, y)
ClimbableAt(x, y) == HasTerrainAt(TheWorld, "climbable", x, y)

\* the walkability the rule gives tile (x, y) for the terrain now in the store
Recomputed(x, y) ==
    /\ ~ SolidAt(x, y)
    /\ \/ ClimbableAt(x, y)
       \/ SolidAt(x, y + 1) \/ ClimbableAt(x, y + 1)
       \/ SolidAt(x, y + 2) /\ (SolidAt(x - 1, y + 1) \/ SolidAt(x + 1, y + 1))

\* C5: after the first tick, and after any pointerDown edits and ticks that follow it,
\* every tile inside the grid is walkable exactly when no solid is at it and it is
\* climbable, or stands on a solid or climbable tile, or on a solid two rows below
\* with a solid diagonally below: the patched grid is the recomputed grid.
C5_GridIsRecomputation ==
    initialized => \A t \in Tiles : grid[t] <=> Recomputed(t[1], t[2])

-----------------------------------------------------------------------------
(* C6 *)

CellsOf(id) == { k \in DOMAIN partitions : id \in Range(partitions[k]) }
CollidableIds == { id \in Range(entities) : hasComponents(heap[id], {"collidable", "positioned"}) }

\* C6: every collidable entity in the store is a member of exactly one partition cell,
\* the one reversePartitions records for it, and an entity that is not in the store is
\* a member of no cell.
C6_PartitionMembership ==
    /\ \A id \in CollidableIds :
          /\ id \in DOMAIN reversePartitions
          /\ CellsOf(id) = { reversePartitions[id] }
    /\ \A id \in (DOMAIN heap) \ Range(entities) : CellsOf(id) = {}

-----------------------------------------------------------------------------
(* C8 *)

Registered == { id \in DOMAIN heap : CellsOf(id) # {} }
QueryRadii == { 0, GRID_SIZE * Unit, Vision * Unit }
QueryPoints ==
    { << heap[id].x, heap[id].y >> : id \in { m \in Registered : hasComponents(heap[m], {"movable"}) } }

\* C8: neighborhood(x, y, radius) is exactly the registered entities within the
\* Euclidean distance radius of (x, y), each once.
C8_NeighborhoodIsExact ==
    \A q \in QueryPoints, r \in QueryRadii :
        LET found == neighborhood(TheWorld.part, heap, q[1], q[2], r)
        IN  /\ Range(found) = { id \in Registered : DistLE(q[1] - heap[id].x, q[2] - heap[id].y, r) }
            /\ Cardinality(Range(found)) = Len(found)


-----------------------------------------------------------------------------
(* C7 *)

RequiredLists ==
    { << c >> : c \in ComponentNames } \cup { << c, d >> : c \in ComponentNames, d \in ComponentNames }
ExcludedLists == { << >> } \cup RequiredLists

\* the entities in the store that hold every required component and no excluded one
Holding(required, excluded) ==
    { id \in Range(entities) :
        /\ Range(required) \subseteq Range(heap[id].components)
        /\ Range(excluded) \cap Range(heap[id].components) = {} }

\* C7: after any sequence of add and remove, having(required, excluded) with a
\* non-empty required list is exactly the entities in the store that hold every
\* required component and none of the excluded ones, each once; an entity that was
\* removed is in no result.
C7_HavingIsExact ==
    \A required \in RequiredLists, excluded \in ExcludedLists :
        LET result == having(TheWorld.ec, required, excluded)
        IN  /\ Range(result) = Holding(required, excluded)
            /\ Len(result) = Cardinality(Range(result))

\* C7's case is reached: an entity has been removed while another that shares a
\* component with it stays in the store
C7_Witness ==
    /\ lastOp = "remove"
    /\ \E gone \in (DOMAIN heap) \ Range(entities), kept \in Range(entities) :
          /\ Range(heap[gone].components) \cap Range(heap[kept].components) # {}
          /\ having(TheWorld.ec, << "positioned" >>, << "groblin" >>) # << >>

-----------------------------------------------------------------------------
(* C9 *)

\* m stands on the top side of a solid terrain entity: the two collide and
\* collideWithBlock would take the branch that lands
Resting(h, solids, m) ==
    \E b \in solids :
        /\ collision(h[m], h[b])
        /\ (h[m].width + h[b].width) - 2 * Abs(h[m].x - h[b].x)
              >= (h[m].height + h[b].height) - 2 * Abs(h[m].y - h[b].y)
        /\ h[m].y - h[b].y <= 0

Solids == { b \in Range(Terrain(TheWorld)) : heap[b].passthrough = "solid" }

AtRest(m) ==
    /\ heap[m].landed # Null
    /\ heap[m].velocity = [x |-> 0, y |-> 0]
    /\ Resting(heap, Solids, m)

\* C9: a movable entity that rests on a solid with zero velocity, and that a tick
\* does not move, has landed # null when the tick ends and received no gravity in it,
\* also when the tick reset its landed because something moved in its cell.
C9_LandedIsStable ==
    [][ TickStep =>
            \A m \in MovableIds \cap Range(entities') :
                ( /\ AtRest(m)
                  /\ heap'[m].x = heap[m].x
                  /\ heap'[m].y = heap[m].y )
                => /\ heap'[m].landed # Null
                   /\ m \notin log'.gravity ]_vars

\* C9's case is reached: a tick reset the landed of an entity at rest, because
\* another entity moved in its cell, and the collision phase landed it again
C9_Witness ==
    /\ lastOp = "tick"
    /\ \E m \in MovableIds, other \in MovableIds :
          /\ m # other
          /\ AtRest(m)
          /\ m \in log.reset
          /\ m \notin log.gravity
          /\ heap[other].velocity # [x |-> 0, y |-> 0]
          /\ getCellKey(heap[other].x, heap[other].y) = getCellKey(heap[m].x, heap[m].y)

-----------------------------------------------------------------------------
(* C10 *)

Food == heap[1].needs.food

\* C10: the state of a food tracker changes only when the value has crossed the
\* threshold on the far side of the band: it leaves full only for a value below
\* hungry, becomes full only for a value above full, becomes starving only for a
\* value below starving and leaves starving only for a value above hungry; a value
\* that stays between the thresholds of the band leaves the state as it was.
C10_Hysteresis ==
    [][ LET before == Food.state
            after == Food'.state
            v == Food'.value
            th == Food.thresholds
        IN  /\ (before = "full" /\ after # "full") => v < th.hungry
            /\ (before # "full" /\ after = "full") => before = "hungry" /\ v > th.full
            /\ (before # "starving" /\ after = "starving") => v < th.starving
            /\ (before = "starving" /\ after # "starving") => after = "hungry" /\ v > th.hungry
            /\ (before = "full" /\ v >= th.hungry) => after = "full"
            /\ (before = "hungry" /\ v >= th.starving /\ v <= th.full) => after = "hungry"
            /\ (before = "starving" /\ v <= th.hungry) => after = "starving" ]_vars

\* C10's case is reached: a tracker that became hungry holds a value back above the
\* hungry threshold, inside the band, and is still hungry
C10_Witness ==
    /\ lastOp \in {"set", "add", "tick"}
    /\ Food.state = "hungry"
    /\ Food.value > Food.thresholds.hungry
    /\ Food.value < Food.thresholds.full

-----------------------------------------------------------------------------
(* C11 *)

\* the meals of a tick: who ate what, in the order of the groblin loop
Meals == { log'.ate[i] : i \in DOMAIN log'.ate }

\* C11: in every tick, with any number of agents, an eat plan acts only on a target
\* that is in the entity store: every edible eaten was in the store when the tick
\* began and is out of it when the tick ends, no edible is eaten twice or by two
\* agents, nothing but the edibles eaten is removed, and every agent's food value ends
\* at the decayed value plus the food of the edible it ate, if it ate one; an agent
\* whose eat plan names an edible that is no longer in the store eats nothing, its food
\* value only decays, and the tick raises no error.
C11_EatRevalidatesTarget ==
    [][ TickStep =>
            /\ \A m \in Meals : /\ m.food \in EdibleIds
                                /\ m.food \notin Range(entities')
                                /\ m.groblin \in GroblinIds
                                /\ heap'[m.groblin].plan = EatPlan(m.food)
            /\ \A i, j \in DOMAIN log'.ate : log'.ate[i].food = log'.ate[j].food => i = j
            /\ log'.removed = { m.food : m \in Meals }
            /\ Range(entities) \ Range(entities') = log'.removed
            /\ \A g \in GroblinIds :
                  LET mine == { m.food : m \in { n \in Meals : n.groblin = g } }
                      stale == /\ heap'[g].plan.type = "eat"
                               /\ heap'[g].plan.what \notin Range(entities)
                  IN  /\ Cardinality(mine) <= 1
                      /\ \E delta \in Deltas :
                            heap'[g].needs.food.value =
                                Fed(heap[g].needs.food, delta,
                                    IF mine = {} THEN 0 ELSE heap[CHOOSE f \in mine : TRUE].food)
                      /\ stale => mine = {} /\ thrown' = "" ]_vars

\* C11's case is reached: with two agents in the world, a tick left an agent with an
\* eat plan for an edible that an earlier tick had removed, and nothing was eaten
C11_Witness ==
    /\ lastOp = "tick"
    /\ thrown = ""
    /\ Cardinality(GroblinIds) >= 2
    /\ log.ate = << >>
    /\ \E g \in GroblinIds : /\ heap[g].plan.type = "eat"
                             /\ heap[g].plan.what \notin Range(entities)
                             /\ heap[g].plan.what \notin log.removed

-----------------------------------------------------------------------------
(* C12 *)

\* C12: FoodTracker.plan never fails with a runtime error: every tick runs its plan
\* calls to their end and leaves each agent with a Move, Consume or Idle plan, also
\* when the tracker's Move plan heads for a visible candidate that is not recorded as
\* touching the agent and no waypoint of its path is left.
C12_PlanNeverThrows ==
    lastOp = "tick" =>
        /\ thrown = ""
        /\ \A g \in GroblinIds : heap[g].plan.type \in { "move", "eat", "wait" }

-----------------------------------------------------------------------------
(* C13 *)

Adjacent(a, b) == Abs(a[1] - b[1]) + Abs(a[2] - b[2]) = 1

\* the length of a shortest walk to the tile e from the tiles of the frontier, which
\* k moves reach from the start and fewer do not; each move goes to a walkable
\* 4-adjacent tile; -1 when there is no walk
RECURSIVE WalkFrom(_, _, _, _, _)
WalkFrom(g, frontier, seen, e, k) ==
    IF e \in frontier THEN k
    ELSE IF frontier = {} THEN -1
    ELSE Then({ n \in Tiles \ seen : g[n] /\ \E f \in frontier : Adjacent(n, f) },
              LAMBDA next : WalkFrom(g, next, seen \cup next, e, k + 1))

WalkLength(g, s, e) == WalkFrom(g, {s}, {s}, e, 0)

-----------------------------------------------------------------------------
(* C14 *)

\* C14: a tick of an initialized world, whatever route searches and explorations its
\* FoodTracker.plan calls make and whether or not one of them fails, leaves the
\* walkable flag of every tile of the world's grid as it was.
C14_SearchesLeaveGrid ==
    [][ (TickStep /\ initialized) => grid' = grid ]_vars

\* C14's case is reached: a tick after the first made a route search and an
\* exploration
C14_Witness ==
    /\ lastOp = "tick"
    /\ nTicks > 1
    /\ log.routed # << >>
    /\ log.explored # {}
    /\ \E t \in Tiles : grid[t]

-----------------------------------------------------------------------------
(* C15 *)

\* what C15 compares of an entity: position, velocity, landed flag and plan
Outcome(e) == [x |-> e.x, y |-> e.y, velocity |-> e.velocity, landed |-> e.landed, plan |-> e.plan]

\* C15: two copies of a world ticked once with the same delta end with the same
\* positions, velocities, landed flags and plans for all the entities they held; in
\* particular the one random draw of World.tick, the x of the berry the timer spawns,
\* changes none of them.
C15_TickIsDeterministic ==
    (~ halted /\ nTicks < MaxTicks) =>
        \A delta \in { d \in Deltas : BerryDue(TheWorld, d) } :
            \E one \in { tick(TheWorld, delta, CHOOSE bx \in BerrySpawnXs : TRUE) } :
                \A bx \in BerrySpawnXs :
                    \E other \in { tick(TheWorld, delta, bx) } :
                        /\ other.thrown = one.thrown
                        /\ \A id \in Range(entities) :
                              Outcome(other.heap[id]) = Outcome(one.heap[id])

-----------------------------------------------------------------------------
(* C16 *)

\* the neighborhood of a cell as neighborhoodsWithMovement() asks for it
CellHood(p, h, cell) ==
    neighborhood(p, h, (cell[1] * GRID_SIZE + 1) * Unit, (cell[2] * GRID_SIZE + 1) * Unit,
                 GRID_SIZE * Unit)

\* C16: neighborhoodsWithMovement returns one neighborhood for each cell that had a
\* movable added or moved since the call before, in the order the cells were dirtied,
\* and leaves the dirty set empty: a call that follows a call with no add or move
\* between them returns the empty list, so no movement is reported twice.
C16_QueryReportsOnce ==
    [][ lastOp' = "query" =>
           /\ log'.hoods = [i \in DOMAIN log.dirtied |->
                                CellHood(TheWorld.part, heap, log.dirtied[i])]
           /\ moved' = << >>
           /\ lastOp = "query" => log'.hoods = << >> ]_vars

\* C16's case is reached: a query has returned the neighborhoods of two dirty cells,
\* one of them with two occupants
C16_Witness ==
    /\ lastOp = "query"
    /\ Len(log.hoods) = 2
    /\ \E i \in DOMAIN log.hoods : Len(log.hoods[i]) >= 2

-----------------------------------------------------------------------------
(* C17 *)

\* the non-movable collidables of w at the tile t
TerrainAt(w, t) ==
    { id \in Range(Terrain(w)) : w.heap[id].x = t[1] * Unit /\ w.heap[id].y = t[2] * Unit }

\* C17: pointerDown toggles a tile between solid and absent.  On a tile that holds a
\* solid block it removes the block and leaves exactly one climbable entity there; on
\* a tile that holds no solid block it adds a solid block; and a tile that held at
\* most one non-movable collidable entity holds at most one after the call.
C17_PointerDownToggles ==
    \A t \in EditTiles :
        \E w \in { pointerDown(TheWorld, t[1], t[2]) } :
            /\ HasTerrainAt(TheWorld, "solid", t[1], t[2]) =>
                  /\ ~ HasTerrainAt(w, "solid", t[1], t[2])
                  /\ Cardinality({ id \in TerrainAt(w, t) : w.heap[id].passthrough = "climbable" }) = 1
            /\ ~ HasTerrainAt(TheWorld, "solid", t[1], t[2]) => HasTerrainAt(w, "solid", t[1], t[2])
            /\ \A u \in Tiles :
                  Cardinality(TerrainAt(TheWorld, u)) <= 1 => Cardinality(TerrainAt(w, u)) <= 1

-----------------------------------------------------------------------------
(* C18 *)

InputOps == { "pointerDown", "keyDown", "keyUp" }

\* the physics and planning fields of an entity, the trackers' caches left out
Staged(e) ==
    [x |-> e.x, y |-> e.y, velocity |-> e.velocity, landed |-> e.landed,
     crawling |-> e.crawling, plan |-> e.plan, priority |-> e.priority,
     relax |-> e.needs.relax,
     food |-> [e.needs.food EXCEPT !.plan = WaitPlan, !.inaccessibleFood = {}]]

\* C18 as stated: no input handler modifies an entity's position, velocity, landed or
\* crawling flag, need tracker state or plan.
C18_InputsTouchNoTracker ==
    [][ lastOp' \in InputOps =>
           \A id \in DOMAIN heap :
              /\ Staged(heap'[id]) = Staged(heap[id])
              /\ heap'[id].needs = heap[id].needs ]_vars

\* C18, amended: no input handler modifies an entity's position, velocity, landed or
\* crawling flag, plan, priority, need values or need states; pointerDown clears the
\* cached plan and the inaccessible-food set of the priority tracker of every agent
\* in the store and leaves every other tracker alone; keyDown and keyUp change nothing
\* but the pressed-key set.
C18_InputsOnlyStage ==
    [][ lastOp' \in InputOps =>
           /\ \A id \in DOMAIN heap : Staged(heap'[id]) = Staged(heap[id])
           /\ lastOp' = "pointerDown" /\ thrown' = "" =>
                  \A id \in DOMAIN heap :
                     IF id \in Range(having(TheWorld.ec, << "groblin" >>, << >>))
                        /\ heap[id].priority = "food"
                     THEN /\ heap'[id].needs.food.plan = WaitPlan
                          /\ heap'[id].needs.food.inaccessibleFood = {}
                     ELSE heap'[id].needs = heap[id].needs
           /\ lastOp' \in { "keyDown", "keyUp" } =>
                  UNCHANGED << heap, nextId, entities, componentMap, partitions,
                               reversePartitions, moved, collidingPairs, grid, berryTimer,
                               initialized, thrown >> ]_vars

\* C18's case is reached: with a key held, a click has cleared the tracker of an agent
\* that is walking along a plan, and the agent still has its plan and its velocity
C18_Witness ==
    /\ lastOp = "pointerDown"
    /\ thrown = ""
    /\ keys # {}
    /\ \E g \in GroblinIds :
          /\ g \in log.cleared
          /\ heap[g].plan.type = "move"
          /\ heap[g].velocity.x # 0
          /\ heap[g].needs.food.plan = WaitPlan

-----------------------------------------------------------------------------
(* C19 *)

\* the agent g as the need loop of a tick of the present state leaves it
AfterNeedLoop(g, delta) == TickNeeds([e |-> heap[g], cleared |-> FALSE], NeedNames, delta).e

\* C19: after the need loop of a tick no need of the agent is strictly more urgent
\* than its priority need; the priority the tick leaves is the one the loop chose, and
\* it differs from the priority before the tick only if some other need was strictly
\* more urgent than the need that had the priority: a tie does not switch.
C19_PriorityArbitration ==
    [][ (TickStep /\ thrown' = "") =>
           \A g \in GroblinIds : \A delta \in Deltas :
              \E r \in { AfterNeedLoop(g, delta) } :
                 /\ heap'[g].priority = r.priority
                 /\ \A i \in DOMAIN NeedNames :
                       urgency(r.needs, NeedNames[i]) <= urgency(r.needs, r.priority)
                 /\ r.priority # heap[g].priority =>
                       \E i \in DOMAIN NeedNames :
                          /\ NeedNames[i] # heap[g].priority
                          /\ urgency(r.needs, NeedNames[i])
                                > urgency(r.needs, heap[g].priority) ]_vars

\* C19's case is reached: ticks have left an agent with the priority on food while its
\* relax need is exactly as urgent
C19_Witness ==
    /\ lastOp = "tick"
    /\ thrown = ""
    /\ nTicks >= 2
    /\ \E g \in GroblinIds :
          /\ heap[g].priority = "food"
          /\ urgency(heap[g].needs, "relax") = urgency(heap[g].needs, "food")

-----------------------------------------------------------------------------
(* C20 *)

InRange(t) == t.min <= t.value /\ t.value <= t.max

\* C20: the value of a need tracker is within [min, max] after any sequence of set,
\* add and tick calls, and adding an amount of food raises the value by
\* min(food, max - value).
C20_ValueInRange ==
    /\ InRange(heap[1].needs.food)
    /\ InRange(heap[1].needs.relax)
    /\ \A food \in { a \in TrackerAmounts : a > 0 } :
          FoodTracker_add(heap[1].needs.food, food).value
              = heap[1].needs.food.value
                  + Min(food, heap[1].needs.food.max - heap[1].needs.food.value)

\* C20's case is reached: an add has stopped at the maximum, short of the amount given
C20_Witness ==
    /\ lastOp = "add"
    /\ heap[1].needs.food.value = heap[1].needs.food.max
    /\ heap[1].needs.food.state = "full"

-----------------------------------------------------------------------------
(* C21 *)

\* C21: pointerDown completes without a runtime error for every tile inside the
\* world: updateGrid writes the walkable flag of no coordinate outside the grid, so no
\* edit is left with the terrain changed and the plans and partitions as they were.
C21_PointerDownCompletes ==
    \A t \in Tiles : pointerDown(TheWorld, t[1], t[2]).thrown = ""

-----------------------------------------------------------------------------
(* C22 *)

\* C22: Partitions.move of a movable whose cell key has changed relocates it and
\* marks both the cell it left and the cell it entered as dirty.
C22_MoveMarksBothCells ==
    [][ lastOp' = "move" =>
           \A id \in DOMAIN reversePartitions :
              reversePartitions'[id] # reversePartitions[id] =>
                 /\ id \in Range(SetMap_get(partitions', reversePartitions'[id]))
                 /\ id \notin Range(SetMap_get(partitions', reversePartitions[id]))
                 /\ reversePartitions'[id] \in Range(moved')
                 /\ reversePartitions[id] \in Range(moved') ]_vars

-----------------------------------------------------------------------------
(* C23 *)

\* the integration step of the tick that left this state moved the entity
MovedLastTick(id) == heap[id].velocity # [x |-> 0, y |-> 0]

\* C23: a tick that follows a tick clears the landed reference of a movable exactly
\* when that movable itself moved in the tick before: of every one that moved, and of
\* none that did not, whatever else moved or was added in its cell.
C23_ResetExactlyWhenMoved ==
    [][ (TickStep /\ lastOp = "tick" /\ thrown' = "") =>
           \A m \in MovableIds \cap Range(entities') :
              (m \in log'.reset) <=> MovedLastTick(m) ]_vars

-----------------------------------------------------------------------------
(* C24 *)

\* the entity as the collision phase left it, before the integration step moved it
BeforeIntegration(e, delta) ==
    [e EXCEPT !.x = @ - (e.velocity.x * delta) \div MsPerSec,
              !.y = @ - (e.velocity.y * delta) \div MsPerSec]

\* m and o overlap, per collision(), when the collision phase starts and when it ends
OverlapThroughPhase(m, o, after, delta) ==
    /\ collision(heap[m], heap[o])
    /\ collision(BeforeIntegration(after[m], delta), BeforeIntegration(after[o], delta))

\* C24: at the end of the collision phase of a tick that follows a tick, every entity
\* that a movable which moved in the tick before overlaps is recorded with it in
\* collidingPairs, and an agent that overlaps a climbable is crawling, as an all-pairs
\* check would have it, wherever the other entity lies.
C24_BroadPhaseComplete ==
    [][ (TickStep /\ lastOp = "tick" /\ thrown' = "") =>
           \A delta \in Deltas :
              \A m \in MovableIds \cap Range(entities') :
                 \A o \in (CollidableIds \cap Range(entities')) \ {m} :
                    (MovedLastTick(m) /\ OverlapThroughPhase(m, o, heap', delta)) =>
                       /\ o \in Pairs_get(collidingPairs', m)
                       /\ m \in Pairs_get(collidingPairs', o)
                       /\ (hasComponents(heap[m], {"groblin"}) /\ heap[o].passthrough = "climbable")
                             => heap'[m].crawling # Null ]_vars

-----------------------------------------------------------------------------
(* C25 *)

\* the climbable entities the agent g overlaps, per collision()
Climbed(g) ==
    { o \in CollidableIds : heap[o].passthrough = "climbable" /\ collision(heap[g], heap[o]) }

\* C25: in a tick that follows a tick, an agent that overlaps a climbable entity when
\* gravity is applied has crawling # null and gets no gravity, also when the agent is
\* at rest and nothing moved near it in the tick before.
C25_CrawlingSuppressesGravity ==
    [][ (TickStep /\ lastOp = "tick") =>
           \A g \in GroblinIds :
              Climbed(g) # {} =>
                 /\ heap[g].crawling # Null
                 /\ g \notin log'.gravity ]_vars

-----------------------------------------------------------------------------
(* C26 *)

\* C26: after a gravity step, for any frame time and density, the downward velocity
\* of a movable that the step accelerated is at most TERMINAL_VELOCITY, and a landed
\* or crawling movable is left as it was.
C26_GravityIsClamped ==
    [][ lastOp' = "gravity" =>
           /\ heap'[3].velocity.y > heap[3].velocity.y =>
                  heap'[3].velocity.y <= TERMINAL_VELOCITY * Unit
           /\ ( \/ heap[3].landed # Null
                \/ hasComponents(heap[3], {"groblin"}) /\ heap[3].crawling # Null )
                 => heap'[3] = heap[3] ]_vars

-----------------------------------------------------------------------------
(* C27 *)

\* twice the overlap of the movable heap[2] and the block heap[1] on each axis
OverlapX2 == (heap[2].width + heap[1].width) - 2 * Abs(heap[2].x - heap[1].x)
OverlapY2 == (heap[2].height + heap[1].height) - 2 * Abs(heap[2].y - heap[1].y)

\* C27: the response of a movable that overlaps a solid is along the axis of the
\* smaller overlap.  With overlapY <= overlapX it is vertical: from above landed is the
\* solid, velocity.y ends <= 0 and the drag brings velocity.x toward zero without
\* changing its sign; from below landed is not set and velocity.y does not end upward.
\* With overlapX < overlapY it is horizontal: landed is not set and velocity.x does not
\* end pointing into the block.
C27_ResponseAlongSmallerOverlap ==
    [][ lastOp' = "collide" =>
           IF OverlapY2 <= OverlapX2
           THEN /\ heap[2].y < heap[1].y =>
                      /\ heap'[2].landed = 1
                      /\ heap'[2].velocity.y <= 0
                      /\ heap'[2].velocity.x # 0 => Sign(heap'[2].velocity.x) = Sign(heap[2].velocity.x)
                      /\ Abs(heap'[2].velocity.x) <= Abs(heap[2].velocity.x)
                      /\ heap[2].velocity.x # 0 => heap'[2].velocity.x # heap[2].velocity.x
                /\ heap[2].y > heap[1].y =>
                      /\ heap'[2].landed = Null
                      /\ heap'[2].velocity.y >= 0
                      /\ heap'[2].velocity.x = heap[2].velocity.x
           ELSE /\ heap'[2].landed = Null
                /\ heap'[2].velocity.y = heap[2].velocity.y
                /\ heap[2].x > heap[1].x => heap'[2].velocity.x >= 0
                /\ heap[2].x < heap[1].x => heap'[2].velocity.x <= 0 ]_vars

\* C27's case is reached: a movable that came down on a block with a horizontal
\* velocity smaller than one step of drag has landed on it and stopped
C27_Witness ==
    /\ lastOp = "collide"
    /\ heap[2].landed = 1
    /\ heap[2].y < heap[1].y
    /\ heap[2].velocity = [x |-> 0, y |-> 0]
    /\ heap[2].x # heap[1].x

-----------------------------------------------------------------------------
(* C28 *)

\* the planner's state as FoodTracker.plan reads it during the next tick: the phases
\* before the groblin loop leave landed and crawling as they are
Grounded(g) == heap[g].landed # Null \/ heap[g].crawling # Null

\* C28: an edible enters a tracker's inaccessible set only in a plan call in which the
\* route search to it returned an empty path and the planner was landed or crawling; a
\* failed route of an airborne planner leaves the edible out of the set.
C28_MarkedOnlyWhenGrounded ==
    [][ lastOp' = "tick" =>
          \A g \in GroblinIds :
              /\ \A f \in heap'[g].needs.food.inaccessibleFood :
                     f \notin heap[g].needs.food.inaccessibleFood =>
                        /\ Grounded(g)
                        /\ \E i \in DOMAIN log'.routed :
                              log'.routed[i] = [groblin |-> g, food |-> f, found |-> FALSE]
              /\ ~ Grounded(g) =>
                    \A i \in DOMAIN log'.routed :
                       (log'.routed[i].groblin = g /\ ~ log'.routed[i].found) =>
                          log'.routed[i].food \notin heap'[g].needs.food.inaccessibleFood ]_vars

\* C28's case is reached: a grounded planner's tracker holds an edible
C28_Witness ==
    /\ lastOp = "tick"
    /\ \E g \in GroblinIds :
          /\ heap[g].needs.food.inaccessibleFood # {}
          /\ \E i \in DOMAIN log.routed :
                /\ log.routed[i].groblin = g
                /\ ~ log.routed[i].found
                /\ log.routed[i].food \in heap[g].needs.food.inaccessibleFood

\* an airborne planner's route search has failed and left the edible out of the set
C28_AirborneRouteFailed ==
    /\ lastOp = "tick"
    /\ \E g \in GroblinIds : \E i \in DOMAIN log.routed :
          /\ log.routed[i].groblin = g
          /\ ~ log.routed[i].found
          /\ log.routed[i].food \notin heap[g].needs.food.inaccessibleFood

-----------------------------------------------------------------------------
(* C29 *)

\* the edibles FoodTracker.plan of g would consider in the next tick but for the cache:
\* landed, and in g's view
Considered(g) ==
    { f \in Range(getView(TheWorld, g, heap[g].vision).entities.entities) :
         /\ hasComponents(heap[f], {"edible", "positioned", "movable", "collidable"})
         /\ heap[f].landed # Null }

\* the edibles in g's cache: pointerDown adds none, so after an edit these were all
\* marked before it
Cached(g) == heap[g].needs.food.inaccessibleFood

\* the first FoodTracker.plan call of g after an edit happens in this step and skips
\* an edible marked before the edit
SkipsStale(g) ==
    /\ lastOp' = "tick"
    /\ heap'[g].priority = "food"
    /\ g \notin log'.cleared
    /\ log'.ate = << >>
    /\ Cached(g) \cap Considered(g) # {}

\* C29: the inaccessible-food cache does not outlive a terrain change.  The first plan
\* call of a food tracker after a pointerDown skips no edible that was marked before
\* the edit: with food the priority at the edit the tick right after it finds the
\* cache cleared by updateGrid, and with another priority no tick calls the food
\* tracker's plan before the switch to food has cleared it.
C29_CacheNeverOutlivesEdit ==
    [][ \A g \in GroblinIds :
           /\ (lastOp = "pointerDown" /\ heap[g].priority = "food") => ~ SkipsStale(g)
           /\ (heap[g].priority # "food" /\ lastOp' = "tick" /\ heap'[g].priority = "food")
                  => g \in log'.cleared ]_vars

\* the same, for the edits that returned normally
C29_ClearedUnlessEditThrew ==
    [][ \A g \in GroblinIds :
           /\ (lastOp = "pointerDown" /\ thrown = "" /\ heap[g].priority = "food")
                  => ~ SkipsStale(g)
           /\ (heap[g].priority # "food" /\ lastOp' = "tick" /\ heap'[g].priority = "food")
                  => g \in log'.cleared ]_vars

-----------------------------------------------------------------------------
(* C30 *)

\* C30: when the need loop leaves the agent with another priority than it had, the
\* tracker of the new priority need has been cleared when the loop ends, before the
\* plan call that follows it: a food tracker holds the wait plan and an empty
\* inaccessible set (a relax tracker keeps nothing that could be cleared).
C30_SwitchClearsTracker ==
    [][ (lastOp' = "needs" /\ heap'[1].priority # heap[1].priority) =>
           (heap'[1].priority = "food" =>
               /\ heap'[1].needs.food.plan = WaitPlan
               /\ heap'[1].needs.food.inaccessibleFood = {}) ]_vars

\* C30's case is reached: the priority has come back to food from relax, and the eat
\* plan and the inaccessible edible the tracker held through the relax spell are gone
C30_Witness ==
    /\ lastOp = "needs"
    /\ 1 \in log.cleared
    /\ heap[1].priority = "food"
    /\ heap[1].plan = WaitPlan
    /\ heap[1].needs.food.plan = WaitPlan
    /\ heap[1].needs.food.inaccessibleFood = {}
    /\ heap[1].needs.food.state = "hungry"
    /\ nTicks >= 5

-----------------------------------------------------------------------------
(* C31 *)

\* the world of a tick when its groblin loop begins
BeforeGroblins(delta, bx) ==
    Gravity(SpawnBerry(Initialize(TheWorld), delta, bx), delta)

\* planning as a phase of its own: groblinSetPlan for every agent, with no agent's
\* movement or meal in between
RECURSIVE PlanPhase(_, _, _)
PlanPhase(w, ids, delta) ==
    IF ids = << >> \/ w.thrown # "" THEN w
    ELSE Then(groblinSetPlan(w, Head(ids), delta), LAMBDA next :
            PlanPhase(next, Tail(ids), delta))

\* C31: the systems of a tick run as whole phases.  With several agents every agent
\* plans before any agent's movement or meal is applied: the plan each agent holds
\* after the groblin loop is the plan it gets when all agents plan first.
C31_PlanningIsOnePhase ==
    \A delta \in Deltas : \A bx \in (IF BerryDue(TheWorld, delta) THEN BerrySpawnXs ELSE {2}) :
        \E w \in { BeforeGroblins(delta, bx) } :
        \E ids \in { having(w.ec, << "groblin", "positioned", "movable", "collidable" >>, << >>) } :
        \E looped \in { Groblins(w, delta) }, phased \in { PlanPhase(w, ids, delta) } :
            (looped.thrown = "" /\ phased.thrown = "") =>
                \A i \in DOMAIN ids : looped.heap[ids[i]].plan = phased.heap[ids[i]].plan

-----------------------------------------------------------------------------
(* C32 *)

\* the loop of a search that has begun is over
ExploreDone == lastOp = "explored"

\* C32: frontier exploration terminates: the work list of a search that has begun
\* becomes empty after finitely many turns of the loop, and explore returns.
C32_ExploreTerminates == (lastOp = "explore") ~> ExploreDone

\* a tile goes on the work list only while no path is recorded for it or the
\* recorded one is longer than the path it is reached by, and a tile that has a
\* recorded path is taken off the list only with a shorter one
C32_PushedOnlyWhenShorter ==
    [][ (lastOp = "explore" /\ lastOp' = "explore") =>
           LET cur == search.toVisit[Len(search.toVisit)]
               pushed == SubSeq(search'.toVisit, Len(search.toVisit), Len(search'.toVisit))
           IN  /\ cur.tile \in DOMAIN search.sp => Len(cur.path) < Len(search.sp[cur.tile])
               /\ \A i \in DOMAIN pushed :
                  /\ Len(pushed[i].path) = Len(cur.path) + 1
                  /\ \/ pushed[i].tile \notin DOMAIN search'.sp
                     \/ Len(search'.sp[pushed[i].tile]) > Len(pushed[i].path) ]_vars

\* C32's case is reached: a search over several tiles has ended and has returned a
\* path of three moves or more
C32_Witness ==
    /\ ExploreDone
    /\ Len(heap[1].plan.path) >= 3

-----------------------------------------------------------------------------
(* C33 *)

\* the tile of the searching agent, and the tiles a search may step on: walkable and
\* nearer to the agent than its vision
ExploreStart == << Round(heap[1].x), Round(heap[1].y) >>
InVision(t) == DistLT(t[1] * Unit - heap[1].x, t[2] * Unit - heap[1].y, heap[1].vision)
ExploreGrid == [t \in Tiles |-> grid[t] /\ InVision(t)]

\* the tiles by their number of moves from the agent's tile
ExploreLayers == Layers(ExploreGrid, {ExploreStart}, {ExploreStart})
Moves(t) == StepsLeft(ExploreLayers, t)

\* the reachable tiles at least one unit to the side the direction selects
Eligible ==
    { t \in Tiles : /\ Moves(t) >= 0
                    /\ Sign(heap[1].x - t[1] * Unit) = heap[1].needs.food.exploreDirection.x
                    /\ Abs(heap[1].x - t[1] * Unit) >= Unit }

\* C33: explore returns a shortest 4-connected path over walkable tiles inside the
\* vision radius, from the agent's rounded tile to a reachable tile that is farthest
\* from the agent among those at least one unit to the side the direction selects;
\* it returns the empty path when there is no such tile.
C33_ExploreFindsFarthest ==
    ExploreDone =>
        LET path == heap[1].plan.path
            walk == << ExploreStart >> \o path
        IN  IF Eligible = {} THEN path = << >>
            ELSE /\ path # << >>
                 /\ path[Len(path)] \in Eligible
                 /\ \A t \in Eligible :
                       PairLE(SqSum(t[1] * Unit - heap[1].x, t[2] * Unit - heap[1].y),
                              SqSum(path[Len(path)][1] * Unit - heap[1].x,
                                    path[Len(path)][2] * Unit - heap[1].y))
                 /\ \A i \in DOMAIN path :
                       /\ ExploreGrid[path[i]]
                       /\ Abs(walk[i][1] - path[i][1]) + Abs(walk[i][2] - path[i][2]) = 1
                 /\ Len(path) = Moves(path[Len(path)])

\* C33's case is reached: of two tiles on the selected side the search has returned the
\* path to the farther one, three moves long
C33_Witness ==
    /\ ExploreDone
    /\ Cardinality(Eligible) >= 2
    /\ Len(heap[1].plan.path) = 3
    /\ \E t \in Eligible : Moves(t) = 1

-----------------------------------------------------------------------------
(* C34 *)

\* what the explore call of g's plan in the next tick returns: the planner is where it
\* is now, the grid is the one the tick leaves, the direction is the tracker's
Explored(g) == explore(heap[g], grid', heap[g].needs.food.exploreDirection.x).path

\* the tracker's plan when the part of plan() after the loop begins
PlanHeld(g) == IF g \in log'.cleared THEN WaitPlan ELSE heap[g].needs.food.plan

\* the plan of the last two ifs of plan(): the plan held, followed, or wait
Fallback(g) ==
    IF PlanHeld(g).type = "move" /\ PlanHeld(g).path # << >>
    THEN follow(heap[g], PlanHeld(g)).plan ELSE WaitPlan

\* C34, as stated: in a plan call that falls back to exploration the agent is grounded
\* or crawling; the tracker commits to a move plan along the explored path whenever the
\* path is not empty, and keeps its direction; it flips the direction only when the
\* path is empty, and an agent with no plan to go on with then gets the wait plan.
C34_CommitsToAnyPath ==
    [][ (lastOp' = "tick" /\ thrown' = "") =>
           \A g \in GroblinIds :
              g \in log'.explored =>
                 \E path \in { Explored(g) } :
                    /\ Grounded(g)
                    /\ IF path # << >>
                       THEN /\ heap'[g].plan.type = "move"
                            /\ heap'[g].plan.path = path
                            /\ heap'[g].needs.food.exploreDirection
                                  = heap[g].needs.food.exploreDirection
                       ELSE /\ heap'[g].needs.food.exploreDirection.x
                                  = - heap[g].needs.food.exploreDirection.x
                            /\ heap'[g].plan = Fallback(g) ]_vars

\* C34, amended: the tracker commits to the explored path when it has more than one
\* waypoint; a path of one waypoint counts as a failure like the empty path: the
\* direction flips and the agent goes on with the plan it held or waits.
C34_CommitsToLongerPath ==
    [][ (lastOp' = "tick" /\ thrown' = "") =>
           \A g \in GroblinIds :
              g \in log'.explored =>
                 \E path \in { Explored(g) } :
                    /\ Grounded(g)
                    /\ IF Len(path) > 1
                       THEN /\ heap'[g].plan = MovePlan([ref |-> Null,
                                                         x |-> path[Len(path)][1] * Unit,
                                                         y |-> path[Len(path)][2] * Unit], path)
                            /\ heap'[g].needs.food.plan = heap'[g].plan
                            /\ heap'[g].needs.food.exploreDirection
                                  = heap[g].needs.food.exploreDirection
                       ELSE /\ heap'[g].needs.food.exploreDirection.x
                                  = - heap[g].needs.food.exploreDirection.x
                            /\ heap'[g].plan = Fallback(g) ]_vars

\* C34's case is reached: an agent that explored and found nowhere to go waits, its
\* direction turned over
C34_Witness ==
    /\ lastOp = "tick"
    /\ thrown = ""
    /\ \E g \in GroblinIds :
          /\ g \in log.explored
          /\ heap[g].plan = WaitPlan
          /\ heap[g].needs.food.exploreDirection.x = 1

\* an agent has committed to an explored path
C34_Committed ==
    /\ lastOp = "tick"
    /\ \E g \in GroblinIds :
          /\ g \in log.explored
          /\ heap[g].plan.type = "move"
          /\ heap[g].plan.to.ref = Null

-----------------------------------------------------------------------------
(* C35 *)

\* the foods of g's plan call in the next tick, in the order the loop takes them, when
\* the tick leaves the tracker's inaccessible set as it is before the call
Foods(g) == Candidates(getView(TheWorld, g, heap[g].vision), heap, g)

Manhattan(g, f) == Abs(heap[f].x - heap[g].x) + Abs(heap[f].y - heap[g].y)
Euclidean2(g, f) == SqSum(heap[f].x - heap[g].x, heap[f].y - heap[g].y)

\* C35: the food candidates are tried nearest first: the first landed, visible, not
\* inaccessible edible that plan considers is at minimal distance from the agent, by
\* the Manhattan or by the Euclidean distance.
C35_NearestFoodFirst ==
    [][ lastOp' = "tick" =>
          \A g \in GroblinIds :
             (heap'[g].priority = "food" /\ g \notin log'.cleared) =>
                \E foods \in { Foods(g) } :
                   foods # << >> =>
                      \/ \A i \in DOMAIN foods :
                            Manhattan(g, foods[1]) <= Manhattan(g, foods[i])
                      \/ \A i \in DOMAIN foods :
                            PairLE(Euclidean2(g, foods[1]), Euclidean2(g, foods[i])) ]_vars

-----------------------------------------------------------------------------
(* C36 *)

\* C36: landed implies support.  When a tick starts, every movable with landed set
\* overlaps the entity it is landed on within the tolerance of the collision test, and
\* that entity is a solid one present in the entity store.
C36_LandedImpliesSupport ==
    \A m \in MovableIds :
        heap[m].landed # Null =>
            /\ heap[m].landed \in Range(entities)
            /\ heap[heap[m].landed].passthrough = "solid"
            /\ intersection(heap[m], heap[heap[m].landed])

\* the same, for the ticks that no pointerDown comes before
C36_SupportWithoutEdits == nEdits = 0 => C36_LandedImpliesSupport

\* no movable starts a tick landed and on its way up
C36_NoLandedJump ==
    \A m \in MovableIds : heap[m].landed # Null => heap[m].velocity.y >= 0

-----------------------------------------------------------------------------
(* C37 *)

\* the movables whose landed entity is no longer in the entity store
Orphaned == { m \in MovableIds :
                 heap[m].landed # Null /\ heap[m].landed \notin Range(entities) }

\* C37: after a pointerDown has removed the solid block a movable is landed on, the
\* movable's landed no longer refers to the removed block by the end of the next tick,
\* even when nothing around it moves.
C37_RemovedBlockForgotten ==
    [][ lastOp' = "tick" =>
          \A m \in Orphaned : heap'[m].landed # heap[m].landed ]_vars

\* the same, for the ticks that follow a pointerDown that returned
C37_ForgottenUnlessEditThrew ==
    [][ (lastOp' = "tick" /\ thrown = "") =>
          \A m \in Orphaned : heap'[m].landed # heap[m].landed ]_vars

\* a movable at rest, landed on a block that a pointerDown has just removed
C37_Witness ==
    /\ lastOp = "pointerDown"
    /\ \E m \in Orphaned : heap[m].velocity = [x |-> 0, y |-> 0]

-----------------------------------------------------------------------------
(* C38 *)

\* b is in collidingPairs[a] iff a is in collidingPairs[b]
PairsSymmetric ==
    \A a \in DOMAIN collidingPairs : \A b \in collidingPairs[a] :
        a \in Pairs_get(collidingPairs, b)

\* every key and every member of collidingPairs is in the entity store
PairsLive ==
    \A a \in DOMAIN collidingPairs :
        /\ a \in Range(entities)
        /\ collidingPairs[a] \subseteq Range(entities)

\* C38: collidingPairs is symmetric and refers to live entities only, in every state
\* that ticks, World.remove and pointerDown lead to.
C38_PairsSymmetricAndLive == PairsSymmetric /\ PairsLive

\* an entity with recorded pairs has been removed from the world, and pairs remain
C38_Witness ==
    /\ log.removed # {}
    /\ \E a \in DOMAIN collidingPairs : collidingPairs[a] # {}
    /\ nEdits > 0

-----------------------------------------------------------------------------
(* C39 *)

\* C39: within one tick each overlapping pair of a movable and a solid entity is
\* resolved by collideWithBlock at most once, also when several dirty cells have
\* neighborhoods that hold the pair.
C39_PairResolvedOnce ==
    lastOp = "tick" =>
        \A i \in DOMAIN log.resolved : \A j \in DOMAIN log.resolved :
            log.resolved[i] = log.resolved[j] => i = j

\* a tick has resolved a pair
C39_Witness == lastOp = "tick" /\ log.resolved # << >>

-----------------------------------------------------------------------------
(* C40 *)

\* the state that a food value calls for when there is no state before it
StateOf(t) ==
    IF t.value < t.thresholds.starving THEN "starving"
    ELSE IF t.value < t.thresholds.hungry THEN "hungry"
    ELSE "full"

\* C40: right after new FoodTracker(initial, max, thresholds), before any tick, the
\* state is "starving" if initial < starving, "hungry" if initial < hungry and "full"
\* otherwise.
C40_StateFromConstruction ==
    lastOp = "new" => heap[1].needs.food.state = StateOf(heap[1].needs.food)

\* the same, for the initial values at or above the hungry threshold
C40_FullFromConstruction ==
    (lastOp = "new" /\ heap[1].needs.food.value >= heap[1].needs.food.thresholds.hungry) =>
        heap[1].needs.food.state = "full"

\* a tracker constructed with an initial value below its hungry threshold
C40_Witness ==
    /\ lastOp = "new"
    /\ heap[1].needs.food.value < heap[1].needs.food.thresholds.hungry

====
